---- MODULE Spec2Model ----
(***************************************************************************)
(* Model of the massivoto interpreter (src/src/core-interpreter.ts): the   *)
(* tree-walking executor of a parsed program, with its retry wrapper, the  *)
(* forEach / if / collect pipeline, the lexical scope chain and the        *)
(* label-path based jump resolution.                                       *)
(*                                                                         *)
(* The recursion of the interpreter is modelled by an explicit call stack: *)
(* one frame per active call of executeStatementList,                      *)
(* executeForEachWithStatementList, executeForEachInstruction and          *)
(* executeWithRetry.  A callee hands its result (or its thrown error) to   *)
(* its caller through the register "ret".                                  *)
(***************************************************************************)
EXTENDS Integers, Sequences, FiniteSets, TLC

\* ------------------------------------------------------------------------
\* Bounds of the model
\* ------------------------------------------------------------------------
MaxRetry == 2      \* retry budgets are drawn from -1 .. MaxRetry
MaxLen == 2        \* iterated sequences have at most MaxLen elements
MaxCalls == 6      \* handler invocations per run (caps backward jumps)
MaxArgs == 4       \* arguments written on one parsed instruction
MaxTail == 5       \* characters of a path text after its "~/"

\* ------------------------------------------------------------------------
\* Runtime values (JavaScript values, tagged)
\* ------------------------------------------------------------------------
Undefined == [t |-> "undefined"]
Null == [t |-> "null"]
Num(n) == [t |-> "number", n |-> n]
Bool(b) == [t |-> "boolean", b |-> b]
Str(s) == [t |-> "string", s |-> s]
Arr(a) == [t |-> "array", a |-> a]
GotoValue(target) == [t |-> "object", type |-> "goto", target |-> target]
ExitValue(code) == [t |-> "object", type |-> "exit", code |-> code]
ReturnValue(v) == [t |-> "object", type |-> "return", value |-> v]

\* JavaScript truthiness, as used by `if (!conditionValue)`
Truthy(v) ==
  CASE v.t = "undefined" -> FALSE
    [] v.t = "null" -> FALSE
    [] v.t = "number" -> v.n # 0
    [] v.t = "boolean" -> v.b
    [] v.t = "string" -> v.s # ""
    [] OTHER -> TRUE

\* Array.isArray
IsArray(v) == v.t = "array"

\* the bare typeof, which calls null an object
TypeNameTypeof(v) == IF v.t = "null" THEN "object" ELSE v.t

\* `iterable === null ? 'null' : typeof iterable`
TypeName(v) == IF v.t = "null" THEN "null" ELSE v.t

\* ------------------------------------------------------------------------
\* Execution context: global data store and scope chain (innermost last)
\* ------------------------------------------------------------------------
EmptyMap == [k \in {} |-> Undefined]

MapSet(m, k, v) == [x \in DOMAIN m \cup {k} |-> IF x = k THEN v ELSE m[x]]

\* pushScope: a fresh child frame becomes the innermost frame
pushScope(chain) == Append(chain, EmptyMap)

\* popScope: back to the parent frame
popScope(chain) == SubSeq(chain, 1, Len(chain) - 1)

\* write: binds the name in the innermost frame (the chain is taken as a
\* value, once)
write(key, value, chain) ==
  CHOOSE written \in {[frames EXCEPT ![Len(frames)] = MapSet(@, key, value)] :
                        frames \in {chain}} : TRUE

\* scope lookup walks from the innermost frame outwards
RECURSIVE lookup(_, _)
lookup(key, chain) ==
  IF chain = <<>> THEN Undefined
  ELSE IF key \in DOMAIN chain[Len(chain)] THEN chain[Len(chain)][key]
  ELSE lookup(key, popScope(chain))

\* lodash.set on the data store (one-segment keys)
lodashSet(data, key, value) == MapSet(data, key, value)

\* cloneExecutionContext: contexts are values, the clone is the same value
cloneExecutionContext(context) == context

EmptyContext(data) == [data |-> data, scopeChain |-> <<EmptyMap>>]

\* ------------------------------------------------------------------------
\* Expressions and their evaluation
\* ------------------------------------------------------------------------
Absent == [type |-> "absent"]
Lit(v) == [type |-> "literal", value |-> v]
Ident(name) == [type |-> "identifier", value |-> name]
SysVar(name) == [type |-> "system-variable", name |-> name]

\* names under which the system variables are written into scope
SysKey(name) ==
  CASE name = "index" -> "$index"
    [] name = "count" -> "$count"
    [] name = "length" -> "$length"
    [] name = "first" -> "$first"
    [] name = "last" -> "$last"
    [] name = "odd" -> "$odd"
    [] name = "even" -> "$even"
    [] OTHER -> "$unknown"

evaluate(expr, context) ==
  CASE expr.type = "literal" -> expr.value
    [] expr.type = "system-variable" -> lookup(SysKey(expr.name), context.scopeChain)
    [] expr.type = "identifier" ->
         LET inScope == lookup(expr.value, context.scopeChain)
         IN IF inScope # Undefined THEN inScope
            ELSE IF expr.value \in DOMAIN context.data THEN context.data[expr.value]
            ELSE Undefined
    [] OTHER -> Undefined

\* ------------------------------------------------------------------------
\* Program tree
\* ------------------------------------------------------------------------
\* An instruction without reserved arguments.  output / collect are target
\* paths split at the dots (<<>> when absent), label is "" when absent.
Instruction(action, args) ==
  [type |-> "instruction", action |-> action, args |-> args,
   output |-> <<>>, condition |-> Absent, forEach |-> Absent,
   label |-> "", retry |-> Absent, collect |-> <<>>]

Block(body) ==
  [type |-> "block", body |-> body, condition |-> Absent, forEach |-> Absent]

ForEachArg(iterable, iterator) ==
  [type |-> "forEach-arg", iterable |-> iterable, iterator |-> iterator]

Arg(name, value) == [name |-> name, value |-> value]

\* presence test of an optional node (`if (statement.condition)`)
Has(node) == node.type # "absent"

\* `@${instruction.action.path.join('/')}`: the id is kept as its segments
CommandId(instruction) == instruction.action

FlowGoto == <<"flow", "goto">>
FlowExit == <<"flow", "exit">>
FlowReturn == <<"flow", "return">>
UtilsLog == <<"utils", "log">>
UtilsSet == <<"utils", "set">>
AiGenerate == <<"ai", "generateImage">>
NoSuchCommand == <<"no", "such">>

\* statements[i] with the 0-based index of the source
At(statements, i) == statements[i + 1]

RECURSIVE NodeIn(_, _)
NodeIn(statements, path) ==
  IF Len(path) = 1 THEN At(statements, path[1])
  ELSE NodeIn(At(statements, path[1]).body, Tail(path))

\* the statement list whose currentPath is path
StatementsAt(program, path) ==
  IF path = <<>> THEN program ELSE NodeIn(program, path).body

\* ------------------------------------------------------------------------
\* Label index
\* ------------------------------------------------------------------------
RECURSIVE walkStatements(_, _, _, _)
walkStatements(statements, pathPrefix, i, index) ==
  IF i >= Len(statements) THEN index
  ELSE LET statement == At(statements, i)
           currentPath == Append(pathPrefix, i)
           walked ==
             IF statement.type = "instruction"
             THEN IF statement.label # ""
                  THEN MapSet(index, statement.label, currentPath)
                  ELSE index
             ELSE IF statement.type = "block"
             THEN walkStatements(statement.body, currentPath, 0, index)
             ELSE index
       IN walkStatements(statements, pathPrefix, i + 1, walked)

buildEnhancedLabelIndex(program) ==
  walkStatements(program, <<>>, 0, [k \in {} |-> <<>>])

IsPrefix(p, q) ==
  /\ Len(p) <= Len(q)
  /\ \A k \in 1..Len(p) : q[k] = p[k]

Local(index) == [type |-> "local", index |-> index]
NonLocal == [type |-> "non-local"]

\* a root list that takes a label inside a block for the block's own index
resolveGotoEntersBlocks(target, index, currentPath) ==
  IF ~(target.t = "string" /\ target.s \in DOMAIN index) THEN NonLocal
  ELSE LET labelPath == index[target.s]
           pathDepth == Len(currentPath)
       IN IF Len(labelPath) = pathDepth + 1 /\ IsPrefix(currentPath, labelPath)
          THEN Local(labelPath[pathDepth + 1])
          ELSE IF pathDepth = 0
          THEN Local(labelPath[1])
          ELSE NonLocal

\* the jump target is a runtime value; only a string can name a label
resolveGoto(target, index, currentPath) ==
  IF ~(target.t = "string" /\ target.s \in DOMAIN index) THEN NonLocal
  ELSE LET labelPath == index[target.s]
           pathDepth == Len(currentPath)
       IN IF Len(labelPath) = pathDepth + 1 /\ IsPrefix(currentPath, labelPath)
          THEN Local(labelPath[pathDepth + 1])
          ELSE IF pathDepth = 0 /\ Len(labelPath) = 1
          THEN Local(labelPath[1])
          ELSE NonLocal

\* ------------------------------------------------------------------------
\* Flow control
\* ------------------------------------------------------------------------
Continue == [type |-> "continue"]
Goto(target) == [type |-> "goto", target |-> target]
Exit(code) == [type |-> "exit", code |-> code]
Return(value) == [type |-> "return", value |-> value]

\* `value?.type === tag`
HasType(value, tag) == value.t = "object" /\ value.type = tag

\* a flow signal read off the shape of the value alone, whatever the command
determineFlowControlByShape(commandId, value) ==
  IF HasType(value, "goto") THEN Goto(value.target)
  ELSE IF HasType(value, "exit") THEN Exit(value.code)
  ELSE IF HasType(value, "return") THEN Return(value.value)
  ELSE Continue

determineFlowControl(commandId, value) ==
  IF commandId = FlowGoto /\ HasType(value, "goto") THEN Goto(value.target)
  ELSE IF commandId = FlowExit /\ HasType(value, "exit") THEN Exit(value.code)
  ELSE IF commandId = FlowReturn /\ HasType(value, "return") THEN Return(value.value)
  ELSE Continue

\* ------------------------------------------------------------------------
\* Output targets
\* ------------------------------------------------------------------------
\* output.startsWith('scope.') on the dot-split target
parseOutputTarget(output) ==
  IF Len(output) > 1 /\ output[1] = "scope"
  THEN [namespace |-> "scope", key |-> output[2]]
  ELSE [namespace |-> "data", key |-> output[1]]

\* the write shared by output= and collect=: scope frame or data store
WriteTarget(context, targetPath, value) ==
  LET target == parseOutputTarget(targetPath)
  IN IF target.namespace = "scope"
     THEN [context EXCEPT !.scopeChain = write(target.key, value, context.scopeChain)]
     ELSE [context EXCEPT !.data = lodashSet(context.data, target.key, value)]

\* value held by a target, as a later statement reads it
ReadTarget(context, targetPath) ==
  LET target == parseOutputTarget(targetPath)
  IN IF target.namespace = "scope"
     THEN lookup(target.key, context.scopeChain)
     ELSE IF target.key \in DOMAIN context.data THEN context.data[target.key]
     ELSE Undefined

\* ------------------------------------------------------------------------
\* Handlers and the registry
\* ------------------------------------------------------------------------
Thrown == [throws |-> TRUE]
ActionResult(success, value, cost) ==
  [throws |-> FALSE, success |-> success, value |-> value, cost |-> cost]

\* registry.resolve(id) finds a handler
Registered(id) ==
  id \in {FlowGoto, FlowExit, FlowReturn, UtilsLog, UtilsSet, AiGenerate}

ArgValue(args, name) == IF name \in DOMAIN args THEN args[name] ELSE Undefined

\* the value the generation handler derives from its arguments
\* (value: `image:${args.situation}` in the tests)
ImageOf(args) == IF "idx" \in DOMAIN args THEN args["idx"] ELSE Str("image")

\* what handler.run(args, context) can do: the flow handlers, the log and
\* the set handler are deterministic, the generation handler is an external service
\* that may throw, fail, or succeed with or without a value.  The registry
\* takes any handler under any id (addRegistryItem): a handler registered
\* under a flow id that is called with result=<value> stands for a double
\* that returns that value
HandlerRun(id, args) ==
  CASE id \in {FlowGoto, FlowExit, FlowReturn} /\ "result" \in DOMAIN args ->
         {ActionResult(TRUE, args["result"], 0)}
    [] id = FlowGoto -> {ActionResult(TRUE, GotoValue(ArgValue(args, "target")), 0)}
    [] id = FlowExit -> {ActionResult(TRUE, ExitValue(ArgValue(args, "code")), 0)}
    [] id = FlowReturn -> {ActionResult(TRUE, ReturnValue(ArgValue(args, "value")), 0)}
    [] id = UtilsLog -> {ActionResult(TRUE, Undefined, 0)}
    [] id = UtilsSet -> {ActionResult(TRUE, ArgValue(args, "input"), 0)}
    [] OTHER -> {Thrown,
                 ActionResult(TRUE, ImageOf(args), 1),
                 ActionResult(TRUE, Undefined, 2),
                 ActionResult(FALSE, ImageOf(args), 1)}

\* the argument map built by execute: a later argument of the same name wins
ArgsOf(instruction, context) ==
  LET args == instruction.args
      names == {args[k].name : k \in DOMAIN args}
      last(n) == CHOOSE k \in DOMAIN args :
                   /\ args[k].name = n
                   /\ \A j \in DOMAIN args : args[j].name = n => j <= k
  IN [n \in names |-> evaluate(args[last(n)].value, context)]

\* ------------------------------------------------------------------------
\* Results handed from callee to caller
\* ------------------------------------------------------------------------
NoRet == [kind |-> "none"]
Throw(error) == [kind |-> "throw", error |-> error]
StatementResult(context, flow, log, cost) ==
  [kind |-> "statement", context |-> context, flow |-> flow, log |-> log, cost |-> cost]
StatementListResult(context, flow, actions, cost) ==
  [kind |-> "list", context |-> context, flow |-> flow, actions |-> actions, cost |-> cost]

CommandNotFound(id) == [name |-> "Command not found", id |-> id]
UnknownLabel(target) == [name |-> "Unknown label", target |-> target]
CannotIterate(type) == [name |-> "Cannot iterate", type |-> type]
HandlerError(call) == [name |-> "HandlerError", call |-> call]

\* an execute that records and writes the returned value whether or not the
\* handler succeeded
ExecuteResultIgnoresSuccess(instruction, context, result) ==
  LET id == CommandId(instruction)
      hasOutput == instruction.output # <<>>
      hasCollect == instruction.collect # <<>>
      value == IF hasOutput \/ hasCollect THEN result.value ELSE Undefined
      cloned == cloneExecutionContext(context)
      returnedContext ==
        IF hasOutput
        THEN WriteTarget(cloned, instruction.output, value)
        ELSE cloned
      log == [command |-> id, success |-> result.success, cost |-> result.cost,
              output |-> instruction.output, value |-> value]
  IN StatementResult(returnedContext, determineFlowControl(id, result.value),
                     log, result.cost)

\* execute, from the handler's result on (lines 216-258)
ExecuteResult(instruction, context, result) ==
  LET id == CommandId(instruction)
      hasOutput == instruction.output # <<>> /\ result.success
      hasCollect == instruction.collect # <<>> /\ result.success
      value == IF hasOutput \/ hasCollect THEN result.value ELSE Undefined
      cloned == cloneExecutionContext(context)
      returnedContext ==
        IF instruction.output # <<>> /\ hasOutput
        THEN WriteTarget(cloned, instruction.output, value)
        ELSE cloned
      log == [command |-> id, success |-> result.success, cost |-> result.cost,
              output |-> instruction.output, value |-> value]
  IN StatementResult(returnedContext, determineFlowControl(id, result.value),
                     log, result.cost)

\* system variables whose parity is taken from the 0-based index
writeSystemVariablesIndexParity(index, length, scopeChain) ==
  LET c1 == write("$index", Num(index), scopeChain)
      c2 == write("$count", Num(index + 1), c1)
      c3 == write("$length", Num(length), c2)
      c4 == write("$first", Bool(index = 0), c3)
      c5 == write("$last", Bool(index = length - 1), c4)
      c6 == write("$odd", Bool(index % 2 = 1), c5)
  IN write("$even", Bool(index % 2 = 0), c6)

writeSystemVariables(index, length, scopeChain) ==
  LET c1 == write("$index", Num(index), scopeChain)
      c2 == write("$count", Num(index + 1), c1)
      c3 == write("$length", Num(length), c2)
      c4 == write("$first", Bool(index = 0), c3)
      c5 == write("$last", Bool(index = length - 1), c4)
      c6 == write("$odd", Bool((index + 1) % 2 = 1), c5)
  IN write("$even", Bool((index + 1) % 2 = 0), c6)

\* counters that number the elements that pass a truthiness filter
IterationContextCountsPassing(context, forEach, iterable, index) ==
  LET cloned == cloneExecutionContext(context)
      pushed == pushScope(cloned.scopeChain)
      passing == {k \in 1..Len(iterable.a) : Truthy(iterable.a[k])}
      before == {k \in passing : k < index + 1}
      withSys == writeSystemVariables(Cardinality(before), Cardinality(passing), pushed)
  IN [cloned EXCEPT !.scopeChain = write(forEach.iterator, At(iterable.a, index), withSys)]

\* the context of one iteration: cloned, new frame, system variables, iterator
IterationContext(context, forEach, iterable, index) ==
  LET cloned == cloneExecutionContext(context)
      pushed == pushScope(cloned.scopeChain)
      withSys == writeSystemVariables(index, Len(iterable.a), pushed)
  IN [cloned EXCEPT !.scopeChain = write(forEach.iterator, At(iterable.a, index), withSys)]

\* an iteration that leaves its scope frame on the chain
PopContextKeepsFrame(context) == context

PopContext(context) == [context EXCEPT !.scopeChain = popScope(context.scopeChain)]

\* ------------------------------------------------------------------------
\* State
\* ------------------------------------------------------------------------
VARIABLES
  program,      \* ProgramNode.body of the program being run
  labelIndex,   \* label name -> path, built once by executeProgram
  stack,        \* active calls of the interpreter, innermost last
  ret,          \* result or thrown error travelling to the caller
  outcome,      \* what executeProgram produced: running / result / failure
  calls         \* history of the handler invocations (handler.run)

vars == <<program, labelIndex, stack, ret, outcome, calls>>

ListFrame(currentPath, context, startIndex) ==
  [fn |-> "executeStatementList", currentPath |-> currentPath,
   context |-> context, actions |-> <<>>, totalCost |-> 0,
   i |-> startIndex, pc |-> "loop"]

ForEachBlockFrame(blockPath, context) ==
  [fn |-> "executeForEachWithStatementList", path |-> blockPath,
   context |-> context, entry |-> context, iterable |-> Undefined, index |-> 0,
   actions |-> <<>>, totalCost |-> 0, pc |-> "start"]

ForEachInstructionFrame(path, context) ==
  [fn |-> "executeForEachInstruction", path |-> path,
   context |-> context, entry |-> context, iterable |-> Undefined, index |-> 0,
   collected |-> <<>>, actions |-> <<>>, totalCost |-> 0, pc |-> "start"]

RetryFrame(path, context) ==
  [fn |-> "executeWithRetry", path |-> path, context |-> context,
   attempt |-> 0, maxRetries |-> 0, lastError |-> Undefined, pc |-> "start"]

Top == stack[Len(stack)]
Running == outcome.kind = "running"
Active(fn, pc) ==
  /\ Running
  /\ stack # <<>>
  /\ Top.fn = fn
  /\ Top.pc = pc

Stay(frame) == stack' = [stack EXCEPT ![Len(stack)] = frame]
Call(caller, callee) ==
  /\ stack' = Append([stack EXCEPT ![Len(stack)] = caller], callee)
  /\ ret' = NoRet
ReturnWith(result) ==
  /\ stack' = SubSeq(stack, 1, Len(stack) - 1)
  /\ ret' = result

\* the statement the innermost statement list is looking at
Statements == StatementsAt(program, Top.currentPath)
Statement == At(Statements, Top.i)
StatementPath == Append(Top.currentPath, Top.i)

AtStatement ==
  /\ Active("executeStatementList", "loop")
  /\ ret = NoRet
  /\ Top.i < Len(Statements)

\* indices of the iterations in progress, outermost first
IterationIndices ==
  LET loops == SelectSeq(stack, LAMBDA f :
                 f.fn \in {"executeForEachWithStatementList",
                           "executeForEachInstruction"})
  IN [k \in 1..Len(loops) |-> loops[k].index]

\* ------------------------------------------------------------------------
\* executeStatementList
\* ------------------------------------------------------------------------
\* while (i < statements.length) is over: the list returns continue
StatementListDone ==
  /\ Active("executeStatementList", "loop")
  /\ ret = NoRet
  /\ Top.i >= Len(Statements)
  /\ ReturnWith(StatementListResult(Top.context, Continue, Top.actions, Top.totalCost))
  /\ UNCHANGED <<program, labelIndex, outcome, calls>>

\* instruction with forEach: call executeForEachInstruction
StatementListForEachInstruction ==
  /\ AtStatement
  /\ Statement.type = "instruction"
  /\ Has(Statement.forEach)
  /\ Call([Top EXCEPT !.pc = "forEach"],
          ForEachInstructionFrame(StatementPath, Top.context))
  /\ UNCHANGED <<program, labelIndex, outcome, calls>>

\* a skipped instruction that leaves the list index where it is
StatementListSkipInstructionStays ==
  /\ AtStatement
  /\ Statement.type = "instruction"
  /\ ~Has(Statement.forEach)
  /\ Has(Statement.condition)
  /\ ~Truthy(evaluate(Statement.condition, Top.context))
  /\ Stay(Top)
  /\ UNCHANGED <<program, labelIndex, ret, outcome, calls>>

\* instruction whose condition is falsy: skipped
StatementListSkipInstruction ==
  /\ AtStatement
  /\ Statement.type = "instruction"
  /\ ~Has(Statement.forEach)
  /\ Has(Statement.condition)
  /\ ~Truthy(evaluate(Statement.condition, Top.context))
  /\ Stay([Top EXCEPT !.i = @ + 1])
  /\ UNCHANGED <<program, labelIndex, ret, outcome, calls>>

\* instruction to run: call executeWithRetry
StatementListInstruction ==
  /\ AtStatement
  /\ Statement.type = "instruction"
  /\ ~Has(Statement.forEach)
  /\ Has(Statement.condition) => Truthy(evaluate(Statement.condition, Top.context))
  /\ Call([Top EXCEPT !.pc = "instruction"], RetryFrame(StatementPath, Top.context))
  /\ UNCHANGED <<program, labelIndex, outcome, calls>>

\* block with forEach: executeBlockWithStatementList delegates to
\* executeForEachWithStatementList
StatementListForEachBlock ==
  /\ AtStatement
  /\ Statement.type = "block"
  /\ Has(Statement.forEach)
  /\ Call([Top EXCEPT !.pc = "block"], ForEachBlockFrame(StatementPath, Top.context))
  /\ UNCHANGED <<program, labelIndex, outcome, calls>>

\* block with a falsy condition: executeBlockWithStatementList returns at once
StatementListSkipBlock ==
  /\ AtStatement
  /\ Statement.type = "block"
  /\ ~Has(Statement.forEach)
  /\ Has(Statement.condition)
  /\ ~Truthy(evaluate(Statement.condition, Top.context))
  /\ Stay([Top EXCEPT !.pc = "block"])
  /\ ret' = StatementListResult(Top.context, Continue, <<>>, 0)
  /\ UNCHANGED <<program, labelIndex, outcome, calls>>

\* a block whose body runs whatever its condition says
StatementListBlockIgnoresCondition ==
  /\ AtStatement
  /\ Statement.type = "block"
  /\ ~Has(Statement.forEach)
  /\ Call([Top EXCEPT !.pc = "block"], ListFrame(StatementPath, Top.context, 0))
  /\ UNCHANGED <<program, labelIndex, outcome, calls>>

\* block to run: executeBlockWithStatementList runs the body as a nested list
StatementListBlock ==
  /\ AtStatement
  /\ Statement.type = "block"
  /\ ~Has(Statement.forEach)
  /\ Has(Statement.condition) => Truthy(evaluate(Statement.condition, Top.context))
  /\ Call([Top EXCEPT !.pc = "block"], ListFrame(StatementPath, Top.context, 0))
  /\ UNCHANGED <<program, labelIndex, outcome, calls>>

\* the list leaves with a flow signal it does not resolve
Leave(frame, flow) ==
  ReturnWith(StatementListResult(frame.context, flow, frame.actions, frame.totalCost))

\* next statement, or the statement a resolved jump names
Resume(frame, index) ==
  /\ Stay([frame EXCEPT !.i = index, !.pc = "loop"])
  /\ ret' = NoRet

\* back from executeForEachInstruction (lines 433-446): no jump resolution
StatementListAfterForEachInstruction ==
  /\ Active("executeStatementList", "forEach")
  /\ ret.kind = "list"
  /\ LET frame == [Top EXCEPT !.context = ret.context,
                              !.actions = @ \o ret.actions,
                              !.totalCost = @ + ret.cost]
     IN IF ret.flow.type # "continue"
        THEN Leave(frame, ret.flow)
        ELSE Resume(frame, Top.i + 1)
  /\ UNCHANGED <<program, labelIndex, outcome, calls>>

\* a list that takes exit and return for the end of the statement
HandleFlowSwallowsTermination(frame, flow) ==
  IF flow.type = "goto"
  THEN LET gotoResult == resolveGoto(flow.target, labelIndex, frame.currentPath)
       IN IF gotoResult.type = "local"
          THEN Resume(frame, gotoResult.index)
          ELSE Leave(frame, flow)
  ELSE Resume(frame, frame.i + 1)

\* a list that starts its log and its cost afresh when it resumes at a label
HandleFlowJumpRestartsList(frame, flow) ==
  IF flow.type = "goto"
  THEN LET gotoResult == resolveGoto(flow.target, labelIndex, frame.currentPath)
       IN IF gotoResult.type = "local"
          THEN Resume([frame EXCEPT !.actions = <<>>, !.totalCost = 0],
                      gotoResult.index)
          ELSE Leave(frame, flow)
  ELSE IF flow.type # "continue"
  THEN Leave(frame, flow)
  ELSE Resume(frame, frame.i + 1)

\* goto handling shared by the instruction and the block branch
HandleFlow(frame, flow) ==
  IF flow.type = "goto"
  THEN LET gotoResult == resolveGoto(flow.target, labelIndex, frame.currentPath)
       IN IF gotoResult.type = "local"
          THEN Resume(frame, gotoResult.index)
          ELSE Leave(frame, flow)
  ELSE IF flow.type # "continue"
  THEN Leave(frame, flow)
  ELSE Resume(frame, frame.i + 1)

\* a list that writes the collected value as output= does, unwrapped
StatementListAfterInstructionUnwrapped ==
  /\ Active("executeStatementList", "instruction")
  /\ ret.kind = "statement"
  /\ LET collects == Statement.collect # <<>> /\ ret.log.value # Undefined
         context == IF collects
                    THEN WriteTarget(ret.context, Statement.collect, ret.log.value)
                    ELSE ret.context
         frame == [Top EXCEPT !.context = context,
                              !.actions = Append(@, ret.log),
                              !.totalCost = @ + ret.cost]
     IN HandleFlow(frame, ret.flow)
  /\ UNCHANGED <<program, labelIndex, outcome, calls>>

\* back from executeWithRetry (lines 463-514)
StatementListAfterInstruction ==
  /\ Active("executeStatementList", "instruction")
  /\ ret.kind = "statement"
  /\ LET collects == Statement.collect # <<>> /\ ret.log.value # Undefined
         context == IF collects
                    THEN WriteTarget(ret.context, Statement.collect,
                                     Arr(<<ret.log.value>>))
                    ELSE ret.context
         frame == [Top EXCEPT !.context = context,
                              !.actions = Append(@, ret.log),
                              !.totalCost = @ + ret.cost]
     IN HandleFlow(frame, ret.flow)
  /\ UNCHANGED <<program, labelIndex, outcome, calls>>

\* back from executeBlockWithStatementList (lines 524-560)
StatementListAfterBlock ==
  /\ Active("executeStatementList", "block")
  /\ ret.kind = "list"
  /\ LET frame == [Top EXCEPT !.context = ret.context,
                              !.actions = @ \o ret.actions,
                              !.totalCost = @ + ret.cost]
     IN HandleFlow(frame, ret.flow)
  /\ UNCHANGED <<program, labelIndex, outcome, calls>>

\* ------------------------------------------------------------------------
\* executeForEachWithStatementList (forEach on a block)
\* ------------------------------------------------------------------------
LoopResult(frame, flow) ==
  StatementListResult(frame.context, flow, frame.actions, frame.totalCost)

\* evaluate the iterable: not an array throws, an empty one returns at once
ForEachBlockStart ==
  /\ Active("executeForEachWithStatementList", "start")
  /\ ret = NoRet
  /\ LET block == NodeIn(program, Top.path)
         iterable == evaluate(block.forEach.iterable, Top.context)
     IN IF ~IsArray(iterable)
        THEN ReturnWith(Throw(CannotIterate(TypeName(iterable))))
        ELSE IF Len(iterable.a) = 0
        THEN ReturnWith(StatementListResult(Top.context, Continue, <<>>, 0))
        ELSE /\ Stay([Top EXCEPT !.iterable = iterable, !.pc = "loop"])
             /\ ret' = NoRet
  /\ UNCHANGED <<program, labelIndex, outcome, calls>>

\* a loop that leaves the frame of a filtered element on the scope chain
ForEachBlockIterateFilteredKeepsFrame ==
  /\ Active("executeForEachWithStatementList", "loop")
  /\ ret = NoRet
  /\ LET block == NodeIn(program, Top.path)
         currentContext ==
           IterationContext(Top.context, block.forEach, Top.iterable, Top.index)
     IN IF Top.index >= Len(Top.iterable.a)
        THEN ReturnWith(LoopResult(Top, Continue))
        ELSE IF /\ Has(block.condition)
                /\ ~Truthy(evaluate(block.condition, currentContext))
        THEN /\ Stay([Top EXCEPT !.context = currentContext,
                                 !.index = @ + 1])
             /\ ret' = NoRet
        ELSE Call([Top EXCEPT !.context = currentContext, !.pc = "body"],
                  ListFrame(Top.path, currentContext, 0))
  /\ UNCHANGED <<program, labelIndex, outcome, calls>>

\* one turn of the for loop: finished, element filtered out, or body called
ForEachBlockIterate ==
  /\ Active("executeForEachWithStatementList", "loop")
  /\ ret = NoRet
  /\ LET block == NodeIn(program, Top.path)
         currentContext ==
           IterationContext(Top.context, block.forEach, Top.iterable, Top.index)
     IN IF Top.index >= Len(Top.iterable.a)
        THEN ReturnWith(LoopResult(Top, Continue))
        ELSE IF /\ Has(block.condition)
                /\ ~Truthy(evaluate(block.condition, currentContext))
        THEN /\ Stay([Top EXCEPT !.context = PopContext(currentContext),
                                 !.index = @ + 1])
             /\ ret' = NoRet
        ELSE Call([Top EXCEPT !.context = currentContext, !.pc = "body"],
                  ListFrame(Top.path, currentContext, 0))
  /\ UNCHANGED <<program, labelIndex, outcome, calls>>

\* a loop that passes a flow signal up without popping its iteration frame
ForEachBlockAfterBodyKeepsFrame ==
  /\ Active("executeForEachWithStatementList", "body")
  /\ ret.kind = "list"
  /\ LET left == [Top EXCEPT !.context = ret.context,
                             !.actions = @ \o ret.actions,
                             !.totalCost = @ + ret.cost]
         frame == [left EXCEPT !.context = PopContext(ret.context)]
     IN IF ret.flow.type # "continue"
        THEN ReturnWith(LoopResult(left, ret.flow))
        ELSE /\ Stay([frame EXCEPT !.index = @ + 1, !.pc = "loop"])
             /\ ret' = NoRet
  /\ UNCHANGED <<program, labelIndex, outcome, calls>>

\* a loop that merges the log of an iteration but not its cost
ForEachBlockAfterBodyDropsCost ==
  /\ Active("executeForEachWithStatementList", "body")
  /\ ret.kind = "list"
  /\ LET frame == [Top EXCEPT !.context = PopContext(ret.context),
                              !.actions = @ \o ret.actions]
     IN IF ret.flow.type # "continue"
        THEN ReturnWith(LoopResult(frame, ret.flow))
        ELSE /\ Stay([frame EXCEPT !.index = @ + 1, !.pc = "loop"])
             /\ ret' = NoRet
  /\ UNCHANGED <<program, labelIndex, outcome, calls>>

\* the body returned: pop the frame, pass a flow signal up or go on
ForEachBlockAfterBody ==
  /\ Active("executeForEachWithStatementList", "body")
  /\ ret.kind = "list"
  /\ LET frame == [Top EXCEPT !.context = PopContext(ret.context),
                              !.actions = @ \o ret.actions,
                              !.totalCost = @ + ret.cost]
     IN IF ret.flow.type # "continue"
        THEN ReturnWith(LoopResult(frame, ret.flow))
        ELSE /\ Stay([frame EXCEPT !.index = @ + 1, !.pc = "loop"])
             /\ ret' = NoRet
  /\ UNCHANGED <<program, labelIndex, outcome, calls>>

\* ------------------------------------------------------------------------
\* executeForEachInstruction (forEach on an instruction)
\* ------------------------------------------------------------------------
\* a loop that leaves the collect target alone when there is no element
ForEachInstructionStartSkipsEmptyCollect ==
  /\ Active("executeForEachInstruction", "start")
  /\ ret = NoRet
  /\ LET instruction == NodeIn(program, Top.path)
         iterable == evaluate(instruction.forEach.iterable, Top.context)
     IN IF ~IsArray(iterable)
        THEN ReturnWith(Throw(CannotIterate(TypeName(iterable))))
        ELSE IF Len(iterable.a) = 0
        THEN ReturnWith(StatementListResult(Top.context, Continue, <<>>, 0))
        ELSE /\ Stay([Top EXCEPT !.iterable = iterable, !.pc = "loop"])
             /\ ret' = NoRet
  /\ UNCHANGED <<program, labelIndex, outcome, calls>>

ForEachInstructionStart ==
  /\ Active("executeForEachInstruction", "start")
  /\ ret = NoRet
  /\ LET instruction == NodeIn(program, Top.path)
         iterable == evaluate(instruction.forEach.iterable, Top.context)
         resultContext ==
           IF instruction.collect # <<>>
           THEN WriteTarget(cloneExecutionContext(Top.context),
                            instruction.collect, Arr(<<>>))
           ELSE Top.context
     IN IF ~IsArray(iterable)
        THEN ReturnWith(Throw(CannotIterate(TypeName(iterable))))
        ELSE IF Len(iterable.a) = 0
        THEN ReturnWith(StatementListResult(resultContext, Continue, <<>>, 0))
        ELSE /\ Stay([Top EXCEPT !.iterable = iterable, !.pc = "loop"])
             /\ ret' = NoRet
  /\ UNCHANGED <<program, labelIndex, outcome, calls>>

\* a loop whose elements all start from the context the loop was entered with
ForEachInstructionIterateStaleContext ==
  /\ Active("executeForEachInstruction", "loop")
  /\ ret = NoRet
  /\ LET instruction == NodeIn(program, Top.path)
         currentContext ==
           IterationContext(Top.entry, instruction.forEach, Top.iterable, Top.index)
         finalContext ==
           IF instruction.collect # <<>>
           THEN WriteTarget(Top.context, instruction.collect, Arr(Top.collected))
           ELSE Top.context
     IN IF Top.index >= Len(Top.iterable.a)
        THEN ReturnWith(StatementListResult(finalContext, Continue,
                                            Top.actions, Top.totalCost))
        ELSE IF /\ Has(instruction.condition)
                /\ ~Truthy(evaluate(instruction.condition, currentContext))
        THEN /\ Stay([Top EXCEPT !.context = PopContext(currentContext),
                                 !.index = @ + 1])
             /\ ret' = NoRet
        ELSE Call([Top EXCEPT !.context = currentContext, !.pc = "execute"],
                  RetryFrame(Top.path, currentContext))
  /\ UNCHANGED <<program, labelIndex, outcome, calls>>

\* one turn of the for loop; after the last element the collected values
\* are written to the collect target
ForEachInstructionIterate ==
  /\ Active("executeForEachInstruction", "loop")
  /\ ret = NoRet
  /\ LET instruction == NodeIn(program, Top.path)
         currentContext ==
           IterationContext(Top.context, instruction.forEach, Top.iterable, Top.index)
         finalContext ==
           IF instruction.collect # <<>>
           THEN WriteTarget(Top.context, instruction.collect, Arr(Top.collected))
           ELSE Top.context
     IN IF Top.index >= Len(Top.iterable.a)
        THEN ReturnWith(StatementListResult(finalContext, Continue,
                                            Top.actions, Top.totalCost))
        ELSE IF /\ Has(instruction.condition)
                /\ ~Truthy(evaluate(instruction.condition, currentContext))
        THEN /\ Stay([Top EXCEPT !.context = PopContext(currentContext),
                                 !.index = @ + 1])
             /\ ret' = NoRet
        ELSE Call([Top EXCEPT !.context = currentContext, !.pc = "execute"],
                  RetryFrame(Top.path, currentContext))
  /\ UNCHANGED <<program, labelIndex, outcome, calls>>

\* a loop that puts the newest collected value first
ForEachInstructionAfterExecuteNewestFirst ==
  /\ Active("executeForEachInstruction", "execute")
  /\ ret.kind = "statement"
  /\ LET instruction == NodeIn(program, Top.path)
         collects == instruction.collect # <<>> /\ ret.log.value # Undefined
         frame == [Top EXCEPT !.context = PopContext(ret.context),
                              !.actions = Append(@, ret.log),
                              !.collected = IF collects
                                            THEN <<ret.log.value>> \o @
                                            ELSE @,
                              !.totalCost = @ + ret.cost]
     IN IF ret.flow.type # "continue"
        THEN ReturnWith(LoopResult(frame, ret.flow))
        ELSE /\ Stay([frame EXCEPT !.index = @ + 1, !.pc = "loop"])
             /\ ret' = NoRet
  /\ UNCHANGED <<program, labelIndex, outcome, calls>>

\* executeWithRetry returned for this element (lines 839-859)
ForEachInstructionAfterExecute ==
  /\ Active("executeForEachInstruction", "execute")
  /\ ret.kind = "statement"
  /\ LET instruction == NodeIn(program, Top.path)
         collects == instruction.collect # <<>> /\ ret.log.value # Undefined
         frame == [Top EXCEPT !.context = PopContext(ret.context),
                              !.actions = Append(@, ret.log),
                              !.collected = IF collects
                                            THEN Append(@, ret.log.value)
                                            ELSE @,
                              !.totalCost = @ + ret.cost]
     IN IF ret.flow.type # "continue"
        THEN ReturnWith(LoopResult(frame, ret.flow))
        ELSE /\ Stay([frame EXCEPT !.index = @ + 1, !.pc = "loop"])
             /\ ret' = NoRet
  /\ UNCHANGED <<program, labelIndex, outcome, calls>>

\* ------------------------------------------------------------------------
\* executeWithRetry and execute
\* ------------------------------------------------------------------------
\* an attempt counter kept for the instruction, shared by all its elements
RetryStartSharedBudget ==
  /\ Active("executeWithRetry", "start")
  /\ ret = NoRet
  /\ LET instruction == NodeIn(program, Top.path)
         retryCount == evaluate(instruction.retry, Top.context)
         maxRetries == IF retryCount.t = "number" THEN retryCount.n ELSE 0
         used == Cardinality({c \in 1..Len(calls) :
                               calls[c].path = Top.path /\ ~calls[c].returned})
     IN IF ~Has(instruction.retry)
        THEN Stay([Top EXCEPT !.pc = "direct"])
        ELSE Stay([Top EXCEPT !.maxRetries = maxRetries, !.attempt = used,
                              !.pc = "loop"])
  /\ UNCHANGED <<program, labelIndex, ret, outcome, calls>>

\* a budget that is never taken below zero
RetryStartClampsNegative ==
  /\ Active("executeWithRetry", "start")
  /\ ret = NoRet
  /\ LET instruction == NodeIn(program, Top.path)
         retryCount == evaluate(instruction.retry, Top.context)
         maxRetries == IF retryCount.t = "number" /\ retryCount.n > 0
                       THEN retryCount.n ELSE 0
     IN IF ~Has(instruction.retry)
        THEN Stay([Top EXCEPT !.pc = "direct"])
        ELSE Stay([Top EXCEPT !.maxRetries = maxRetries, !.attempt = 0,
                              !.pc = "loop"])
  /\ UNCHANGED <<program, labelIndex, ret, outcome, calls>>

\* no retry argument: execute directly; otherwise evaluate the budget
RetryStart ==
  /\ Active("executeWithRetry", "start")
  /\ ret = NoRet
  /\ LET instruction == NodeIn(program, Top.path)
         retryCount == evaluate(instruction.retry, Top.context)
         maxRetries == IF retryCount.t = "number" THEN retryCount.n ELSE 0
     IN IF ~Has(instruction.retry)
        THEN Stay([Top EXCEPT !.pc = "direct"])
        ELSE Stay([Top EXCEPT !.maxRetries = maxRetries, !.attempt = 0,
                              !.pc = "loop"])
  /\ UNCHANGED <<program, labelIndex, ret, outcome, calls>>

\* execute may run: directly, or inside the loop while attempt <= maxRetries
CanExecute ==
  /\ Running
  /\ stack # <<>>
  /\ Top.fn = "executeWithRetry"
  /\ ret = NoRet
  /\ \/ Top.pc = "direct"
     \/ Top.pc = "loop" /\ Top.attempt <= Top.maxRetries

\* an attempt whose output is written before the handler has returned, so
\* that a failed attempt leaves its write in the context of the next one
CaughtKeepsPartialWrite(error) ==
  IF Top.pc = "direct" \/ Top.attempt = Top.maxRetries
  THEN ReturnWith(Throw(error))
  ELSE /\ Stay([Top EXCEPT
                  !.lastError = error,
                  !.attempt = @ + 1,
                  !.context =
                    IF NodeIn(program, Top.path).output # <<>>
                    THEN WriteTarget(@, NodeIn(program, Top.path).output, Undefined)
                    ELSE @])
       /\ ret' = NoRet

\* the budget taken as the number of attempts instead of retries
CaughtOneAttemptShort(error) ==
  IF Top.pc = "direct" \/ Top.attempt + 1 >= Top.maxRetries
  THEN ReturnWith(Throw(error))
  ELSE /\ Stay([Top EXCEPT !.lastError = error, !.attempt = @ + 1])
       /\ ret' = NoRet

\* an error thrown by execute: propagated when there is no retry argument,
\* otherwise caught (lines 284-289)
Caught(error) ==
  IF Top.pc = "direct" \/ Top.attempt = Top.maxRetries
  THEN ReturnWith(Throw(error))
  ELSE /\ Stay([Top EXCEPT !.lastError = error, !.attempt = @ + 1])
       /\ ret' = NoRet

CallRecord(instruction, args, returned, result) ==
  [path |-> Top.path, id |-> CommandId(instruction), args |-> args,
   context |-> Top.context, iteration |-> IterationIndices,
   returned |-> returned, result |-> result]

\* an execute whose unknown command ends the instruction at the first attempt
ExecuteCommandNotFoundNotRetried ==
  /\ CanExecute
  /\ LET instruction == NodeIn(program, Top.path)
     IN /\ ~Registered(CommandId(instruction))
        /\ ReturnWith(Throw(CommandNotFound(CommandId(instruction))))
  /\ UNCHANGED <<program, labelIndex, outcome, calls>>

\* registry.resolve finds nothing
ExecuteCommandNotFound ==
  /\ CanExecute
  /\ LET instruction == NodeIn(program, Top.path)
     IN /\ ~Registered(CommandId(instruction))
        /\ Caught(CommandNotFound(CommandId(instruction)))
  /\ UNCHANGED <<program, labelIndex, outcome, calls>>

\* handler.run throws
ExecuteHandlerThrows ==
  /\ CanExecute
  /\ Len(calls) < MaxCalls
  /\ LET instruction == NodeIn(program, Top.path)
         id == CommandId(instruction)
         args == ArgsOf(instruction, Top.context)
     IN /\ Registered(id)
        /\ Thrown \in HandlerRun(id, args)
        /\ calls' = Append(calls, CallRecord(instruction, args, FALSE, Thrown))
        /\ Caught(HandlerError(Len(calls) + 1))
  /\ UNCHANGED <<program, labelIndex, outcome>>

\* a wrapper that tries again after a result, as long as attempts are left
ExecuteHandlerReturnsKeepsTrying ==
  /\ CanExecute
  /\ Len(calls) < MaxCalls
  /\ LET instruction == NodeIn(program, Top.path)
         id == CommandId(instruction)
         args == ArgsOf(instruction, Top.context)
     IN /\ Registered(id)
        /\ \E result \in HandlerRun(id, args) \ {Thrown} :
             /\ calls' = Append(calls, CallRecord(instruction, args, TRUE, result))
             /\ IF Top.pc = "direct" \/ Top.attempt = Top.maxRetries
                THEN ReturnWith(ExecuteResult(instruction, Top.context, result))
                ELSE /\ Stay([Top EXCEPT !.attempt = @ + 1])
                     /\ ret' = NoRet
  /\ UNCHANGED <<program, labelIndex, outcome>>

\* a wrapper that takes a result with success = false for a failed attempt
\* and tries again while attempts are left
ExecuteHandlerReturnsRetriesFailure ==
  /\ CanExecute
  /\ Len(calls) < MaxCalls
  /\ LET instruction == NodeIn(program, Top.path)
         id == CommandId(instruction)
         args == ArgsOf(instruction, Top.context)
     IN /\ Registered(id)
        /\ \E result \in HandlerRun(id, args) \ {Thrown} :
             /\ calls' = Append(calls, CallRecord(instruction, args, TRUE, result))
             /\ IF result.success \/ Top.pc = "direct" \/ Top.attempt = Top.maxRetries
                THEN ReturnWith(ExecuteResult(instruction, Top.context, result))
                ELSE /\ Stay([Top EXCEPT !.attempt = @ + 1])
                     /\ ret' = NoRet
  /\ UNCHANGED <<program, labelIndex, outcome>>

\* handler.run returns a result: execute builds the log entry, writes the
\* output and returns, and so does executeWithRetry
ExecuteHandlerReturns ==
  /\ CanExecute
  /\ Len(calls) < MaxCalls
  /\ LET instruction == NodeIn(program, Top.path)
         id == CommandId(instruction)
         args == ArgsOf(instruction, Top.context)
     IN /\ Registered(id)
        /\ \E result \in HandlerRun(id, args) \ {Thrown} :
             /\ calls' = Append(calls, CallRecord(instruction, args, TRUE, result))
             /\ ReturnWith(ExecuteResult(instruction, Top.context, result))
  /\ UNCHANGED <<program, labelIndex, outcome>>

\* the for loop ends without an attempt left: `throw lastError!`
RetryLoopExit ==
  /\ Active("executeWithRetry", "loop")
  /\ ret = NoRet
  /\ Top.attempt > Top.maxRetries
  /\ ReturnWith(Throw(Top.lastError))
  /\ UNCHANGED <<program, labelIndex, outcome, calls>>

\* ------------------------------------------------------------------------
\* Errors and executeProgram
\* ------------------------------------------------------------------------
\* an error unwinds the call it reaches: no caller catches
Propagate ==
  /\ Running
  /\ stack # <<>>
  /\ ret.kind = "throw"
  /\ stack' = SubSeq(stack, 1, Len(stack) - 1)
  /\ UNCHANGED <<program, labelIndex, ret, outcome, calls>>

\* the error leaves executeProgram
ProgramThrows ==
  /\ Running
  /\ stack = <<>>
  /\ ret.kind = "throw"
  /\ outcome' = [kind |-> "failed", error |-> ret.error]
  /\ ret' = NoRet
  /\ UNCHANGED <<program, labelIndex, stack, calls>>

\* a program result that takes an unresolved jump for a normal completion
ProgramResultIgnoresGoto(result) ==
  LET batch == [success |-> result.flow.type # "exit" \/ result.flow.code = Num(0),
                actions |-> result.actions, totalCost |-> result.cost]
      exitedAt == IF Len(result.actions) > 0 THEN Len(result.actions) - 1 ELSE 0
  IN CASE result.flow.type = "exit" ->
            [kind |-> "earlyExit", context |-> result.context,
             exitCode |-> result.flow.code, exitedAt |-> exitedAt,
             batches |-> <<batch>>, cost |-> result.cost]
       [] result.flow.type = "return" ->
            [kind |-> "return", context |-> result.context,
             value |-> result.flow.value, exitedAt |-> exitedAt,
             batches |-> <<batch>>, cost |-> result.cost]
       [] OTHER ->
            [kind |-> "normal", context |-> result.context,
             batches |-> <<batch>>, cost |-> result.cost]

\* createNormalCompletion / createEarlyExit / createReturn, or the
\* unresolved goto (lines 349-399)
ProgramResult(result) ==
  LET batch == [success |-> result.flow.type # "exit" \/ result.flow.code = Num(0),
                actions |-> result.actions, totalCost |-> result.cost]
      exitedAt == IF Len(result.actions) > 0 THEN Len(result.actions) - 1 ELSE 0
  IN CASE result.flow.type = "exit" ->
            [kind |-> "earlyExit", context |-> result.context,
             exitCode |-> result.flow.code, exitedAt |-> exitedAt,
             batches |-> <<batch>>, cost |-> result.cost]
       [] result.flow.type = "return" ->
            [kind |-> "return", context |-> result.context,
             value |-> result.flow.value, exitedAt |-> exitedAt,
             batches |-> <<batch>>, cost |-> result.cost]
       [] result.flow.type = "goto" ->
            [kind |-> "failed", error |-> UnknownLabel(result.flow.target)]
       [] OTHER ->
            [kind |-> "normal", context |-> result.context,
             batches |-> <<batch>>, cost |-> result.cost]

ProgramReturns ==
  /\ Running
  /\ stack = <<>>
  /\ ret.kind = "list"
  /\ outcome' = ProgramResult(ret)
  /\ ret' = NoRet
  /\ UNCHANGED <<program, labelIndex, stack, calls>>

\* ------------------------------------------------------------------------
\* Instruction parser: from the arguments of one instruction to its node
\* (createInstructionGrammar, the map of the instruction production)
\* ------------------------------------------------------------------------
\* what the reserved-argument productions yield
OutputArg(target) == [type |-> "output-arg", target |-> target]
IfArg(condition) == [type |-> "if-arg", condition |-> condition]
LabelArg(name) == [type |-> "label-arg", name |-> name]
RetryArg(count) == [type |-> "retry-arg", count |-> count]
CollectArg(target) == [type |-> "collect-arg", target |-> target]

\* arg.type: the generic name=expression production yields a plain argument
ArgType(arg) == IF "type" \in DOMAIN arg THEN arg.type ELSE "argument"

BothOutputAndCollect == "Cannot use both output= and collect= on the same instruction"

\* a loop body that drops retry= when it is written after if=
TakeArgRetryBeforeIfOnly(node, arg) ==
  CASE ArgType(arg) = "output-arg" -> [node EXCEPT !.output = arg.target]
    [] ArgType(arg) = "if-arg" -> [node EXCEPT !.condition = arg.condition]
    [] ArgType(arg) = "forEach-arg" -> [node EXCEPT !.forEach = arg]
    [] ArgType(arg) = "label-arg" -> [node EXCEPT !.label = arg.name]
    [] ArgType(arg) = "retry-arg" ->
         IF Has(node.condition) THEN node ELSE [node EXCEPT !.retry = arg.count]
    [] ArgType(arg) = "collect-arg" -> [node EXCEPT !.collect = arg.target]
    [] OTHER -> [node EXCEPT !.args = Append(@, arg)]

\* one turn of `for (const arg of allArgs)` (lines 223-241)
TakeArg(node, arg) ==
  CASE ArgType(arg) = "output-arg" -> [node EXCEPT !.output = arg.target]
    [] ArgType(arg) = "if-arg" -> [node EXCEPT !.condition = arg.condition]
    [] ArgType(arg) = "forEach-arg" -> [node EXCEPT !.forEach = arg]
    [] ArgType(arg) = "label-arg" -> [node EXCEPT !.label = arg.name]
    [] ArgType(arg) = "retry-arg" -> [node EXCEPT !.retry = arg.count]
    [] ArgType(arg) = "collect-arg" -> [node EXCEPT !.collect = arg.target]
    [] OTHER -> [node EXCEPT !.args = Append(@, arg)]

RECURSIVE SeparateArgs(_, _, _)
SeparateArgs(node, allArgs, k) ==
  IF k > Len(allArgs) THEN node
  ELSE SeparateArgs(TakeArg(node, allArgs[k]), allArgs, k + 1)

\* a parse that accepts output= together with collect=
instructionNodeWithoutExclusion(action, allArgs) ==
  [kind |-> "parsed", node |-> SeparateArgs(Instruction(action, <<>>), allArgs, 1)]

\* the instruction node, or the error thrown for output= with collect=
instructionNode(action, allArgs) ==
  LET node == SeparateArgs(Instruction(action, <<>>), allArgs, 1)
  IN IF node.output # <<>> /\ node.collect # <<>>
     THEN [kind |-> "parseFailed", error |-> BothOutputAndCollect]
     ELSE [kind |-> "parsed", node |-> node]

\* the parser has matched ACTION and its arguments and is about to map them
ParseFrame(action, allArgs) ==
  [fn |-> "instruction", action |-> action, allArgs |-> allArgs]

Parsing ==
  /\ outcome.kind = "parsing"
  /\ stack # <<>>
  /\ Top.fn = "instruction"

\* the result of a parse, kept together with the arguments it was given
ParseResult(result, allArgs) ==
  [k \in DOMAIN result \cup {"source"} |->
     IF k = "source" THEN allArgs ELSE result[k]]

ParseInstruction ==
  /\ Parsing
  /\ outcome' = ParseResult(instructionNode(Top.action, Top.allArgs), Top.allArgs)
  /\ stack' = <<>>
  /\ UNCHANGED <<program, labelIndex, ret, calls>>

\* ------------------------------------------------------------------------
\* Path literals (file-path-parser.ts); a text is a sequence of characters
\* ------------------------------------------------------------------------
\* [a-zA-Z0-9_\-\.\/] is represented by a letter, the dot and the slash
PathChars == {"a", ".", "/"}
Star == "*"

\* s.includes(sub)
includes(s, sub) ==
  \E i \in 0..(Len(s) - Len(sub)) : SubSeq(s, i + 1, i + Len(sub)) = sub

\* number of leading characters of s, after the first `from`, that are in set
RECURSIVE RunLength(_, _, _)
RunLength(s, from, set) ==
  IF from < Len(s) /\ s[from + 1] \in set
  THEN 1 + RunLength(s, from + 1, set)
  ELSE 0

NoMatch == [matched |-> FALSE]
Match(text) == [matched |-> TRUE, text |-> text]

StartsWithTildeSlash(s) == Len(s) >= 2 /\ s[1] = "~" /\ s[2] = "/"

\* /~\/[a-zA-Z0-9_\-\.\/]+/ at the start of s: the longest run, not empty
filePathRegex(s) ==
  LET n == RunLength(s, 2, PathChars)
  IN IF StartsWithTildeSlash(s) /\ n >= 1 THEN Match(SubSeq(s, 1, 2 + n)) ELSE NoMatch

\* /~\/[a-zA-Z0-9_\-\.\/]*\*[a-zA-Z0-9_\-\.\/\*]*/ at the start of s: the
\* longest run of path characters and stars, with a star in it
globPathRegex(s) ==
  LET n == RunLength(s, 2, PathChars \cup {Star})
  IN IF StartsWithTildeSlash(s) /\ includes(SubSeq(s, 3, 2 + n), <<Star>>)
     THEN Match(SubSeq(s, 1, 2 + n))
     ELSE NoMatch

\* a filter that lets every match through
rejectTraversalAcceptsAll(s) == TRUE

rejectTraversal(s) == ~includes(s, <<".", ".">>)

stripTrailingSlash(s) ==
  IF Len(s) > 0 /\ s[Len(s)] = "/" THEN SubSeq(s, 1, Len(s) - 1) ELSE s

\* F.regex(re).filter(rejectTraversal).map(stripTrailingSlash)
LiteralParser(match) ==
  IF match.matched /\ rejectTraversal(match.text)
  THEN [accepted |-> TRUE, value |-> stripTrailingSlash(match.text)]
  ELSE [accepted |-> FALSE]

fileLiteralParser(s) == LiteralParser(filePathRegex(s))
globLiteralParser(s) == LiteralParser(globPathRegex(s))

\* glob first, file as fallback
pathLiteralParser(s) ==
  IF globLiteralParser(s).accepted
  THEN [kind |-> "parsed",
        node |-> [type |-> "literal-glob", value |-> globLiteralParser(s).value]]
  ELSE IF fileLiteralParser(s).accepted
  THEN [kind |-> "parsed",
        node |-> [type |-> "literal-file", value |-> fileLiteralParser(s).value]]
  ELSE [kind |-> "rejected"]

PathFrame(input) == [fn |-> "pathLiteralParser", input |-> input]

ParsingPath ==
  /\ outcome.kind = "parsing"
  /\ stack # <<>>
  /\ Top.fn = "pathLiteralParser"

ParsePathLiteral ==
  /\ ParsingPath
  /\ outcome' = ParseResult(pathLiteralParser(Top.input), Top.input)
  /\ stack' = <<>>
  /\ UNCHANGED <<program, labelIndex, ret, calls>>

\* ------------------------------------------------------------------------
\* Programs and inputs the runs start from
\* ------------------------------------------------------------------------
\* retry argument: absent, a number from -1 to MaxRetry, or a non-number
RetryChoices == 0..(MaxRetry + 3)
\* the same without the negative and the non-number budget
NumericRetryChoices == {0} \cup 2..(MaxRetry + 2)
RetryExpr(r) ==
  IF r = 0 THEN Absent
  ELSE IF r = MaxRetry + 3 THEN Lit(Str("many"))
  ELSE Lit(Num(r - 2))

\* sequences to iterate: elements 0 (falsy) and 1 (truthy)
ItemSeqs == UNION {[1..n -> {Num(0), Num(1)}] : n \in 0..MaxLen}
Iterables == {Arr(items) : items \in ItemSeqs} \cup {Null, Str("abc")}

\* output / collect targets: none, data store, scope
Targets == {<<>>, <<"results">>, <<"scope", "results">>}

Labels == {"top", "in", "other", "end", "nowhere"}

IndexArgs == <<Arg("idx", SysVar("index")), Arg("len", SysVar("length"))>>

\* @ai/generateImage retry=r output=o ; @utils/log
RetryProgram(r, o) ==
  <<[Instruction(AiGenerate, <<>>) EXCEPT !.retry = RetryExpr(r), !.output = o],
    Instruction(UtilsLog, <<>>)>>

\* @ai/generateImage collect=c retry=r ; @utils/log
CollectProgram(r, c) ==
  <<[Instruction(AiGenerate, <<>>) EXCEPT !.retry = RetryExpr(r), !.collect = c],
    Instruction(UtilsLog, <<>>)>>

\* @ai/generateImage idx=$index len=$length forEach=items->item if=item
\*                   retry=r collect=c ; @utils/log
ForEachInstructionProgram(r, c) ==
  <<[Instruction(AiGenerate, IndexArgs) EXCEPT
       !.forEach = ForEachArg(Ident("items"), "item"),
       !.condition = Ident("item"),
       !.retry = RetryExpr(r),
       !.collect = c],
    Instruction(UtilsLog, <<>>)>>

\* @block/begin forEach=items->item if=item
\*   @utils/log idx=$index len=$length ; @ai/generateImage output=scope.last
\* @block/end ; @utils/log
ForEachBlockProgram ==
  <<[Block(<<Instruction(UtilsLog, IndexArgs),
             [Instruction(AiGenerate, <<>>) EXCEPT !.output = <<"scope", "last">>]>>)
       EXCEPT !.forEach = ForEachArg(Ident("items"), "item"),
              !.condition = Ident("item")],
    Instruction(UtilsLog, <<>>)>>

\* the jumping instruction: @flow/goto target=t, plain or with a forEach
Jumper(t, withForEach) ==
  [Instruction(FlowGoto, <<Arg("target", Lit(Str(t)))>>) EXCEPT
     !.forEach = IF withForEach
                 THEN ForEachArg(Lit(Arr(<<Num(1)>>)), "item")
                 ELSE Absent]

\* @ai/generateImage label="top" output=flag ; @flow/goto target=t if=flag ;
\* @ai/generateImage ; @utils/log label="end"
RootJumpProgram(t, withForEach) ==
  <<[Instruction(AiGenerate, <<>>) EXCEPT !.label = "top", !.output = <<"flag">>],
    [Jumper(t, withForEach) EXCEPT !.condition = Ident("flag")],
    Instruction(AiGenerate, <<>>),
    [Instruction(UtilsLog, <<>>) EXCEPT !.label = "end"]>>

\* @ai/generateImage label="top"
\* @block/begin if=go ; @flow/goto target=t ; @ai/generateImage ;
\*                      @utils/log label="in" ; @block/end
\* @block/begin ; @utils/log label="other" ; @block/end
\* @utils/log label="end"
NestedJumpProgram(t, withForEach) ==
  <<[Instruction(AiGenerate, <<>>) EXCEPT !.label = "top"],
    [Block(<<Jumper(t, withForEach),
             Instruction(AiGenerate, <<>>),
             [Instruction(UtilsLog, <<>>) EXCEPT !.label = "in"]>>)
       EXCEPT !.condition = Ident("go")],
    Block(<<[Instruction(UtilsLog, <<>>) EXCEPT !.label = "other"]>>),
    [Instruction(UtilsLog, <<>>) EXCEPT !.label = "end"]>>

\* @block/begin forEach=teams->team
\*   @block/begin forEach=items->item
\*     @flow/goto target=t if=item ; @utils/log idx=$index
\*   @block/end
\*   @ai/generateImage
\*   @utils/log label="in" idx=$index
\* @block/end
\* @utils/log label="end"
NestedForEachProgram(t) ==
  <<[Block(<<[Block(<<[Jumper(t, FALSE) EXCEPT !.condition = Ident("item")],
                      Instruction(UtilsLog, IndexArgs)>>)
                EXCEPT !.forEach = ForEachArg(Ident("items"), "item")],
             Instruction(AiGenerate, <<>>),
             [Instruction(UtilsLog, IndexArgs) EXCEPT !.label = "in"]>>)
       EXCEPT !.forEach = ForEachArg(Ident("teams"), "team")],
    [Instruction(UtilsLog, <<>>) EXCEPT !.label = "end"]>>

\* the terminating instruction: @flow/exit code=3 or @flow/return value=7,
\* plain or with a forEach
Terminator(id, withForEach) ==
  [Instruction(id, <<Arg("code", Lit(Num(3))), Arg("value", Lit(Num(7)))>>) EXCEPT
     !.forEach = IF withForEach
                 THEN ForEachArg(Lit(Arr(<<Num(1)>>)), "x")
                 ELSE Absent]

\* @block/begin forEach=items->item
\*   @utils/set input=$index output=last
\*   @block/begin if=item ; <terminator> ; @utils/log ; @block/end
\*   @utils/log
\* @block/end
\* @utils/log
TerminatorProgram(id, withForEach) ==
  <<[Block(<<[Instruction(UtilsSet, <<Arg("input", SysVar("index"))>>)
                EXCEPT !.output = <<"last">>],
             [Block(<<Terminator(id, withForEach), Instruction(UtilsLog, <<>>)>>)
                EXCEPT !.condition = Ident("item")],
             Instruction(UtilsLog, <<>>)>>)
       EXCEPT !.forEach = ForEachArg(Ident("items"), "item")],
    Instruction(UtilsLog, <<>>)>>

\* @utils/set input=item output=go forEach=items->item if=go
\* @block/begin if=go ; @utils/set input=0 output=go ; @utils/log ; @block/end
\* @utils/log
OrderProgram ==
  <<[Instruction(UtilsSet, <<Arg("input", Ident("item"))>>) EXCEPT
       !.forEach = ForEachArg(Ident("items"), "item"),
       !.condition = Ident("go"),
       !.output = <<"go">>],
    [Block(<<[Instruction(UtilsSet, <<Arg("input", Lit(Num(0)))>>)
                EXCEPT !.output = <<"go">>],
             Instruction(UtilsLog, <<>>)>>)
       EXCEPT !.condition = Ident("go")],
    Instruction(UtilsLog, <<>>)>>

\* values a handler can return that look like flow results, or do not
Signals ==
  {GotoValue(Str("end")), ExitValue(Num(3)), ReturnValue(Num(7)),
   Num(1), Null, Undefined}

\* @utils/set input=signal output=copy
\* <@flow/goto | @flow/exit | @flow/return> result=signal
\* @utils/log ; @utils/log label="end"
SignalProgram(id) ==
  <<[Instruction(UtilsSet, <<Arg("input", Ident("signal"))>>)
       EXCEPT !.output = <<"copy">>],
    Instruction(id, <<Arg("result", Ident("signal"))>>),
    Instruction(UtilsLog, <<>>),
    [Instruction(UtilsLog, <<>>) EXCEPT !.label = "end"]>>

\* @utils/set input=go output=flag
\* @flow/goto target=t
\* @ai/generateImage
\* @utils/log label="cond" if=flag
\* @block/begin ; @utils/log label="inside" ; @block/end
\* @utils/log idx=$index len=$length label="each" forEach=items->item
LandingProgram(t) ==
  <<[Instruction(UtilsSet, <<Arg("input", Ident("go"))>>)
       EXCEPT !.output = <<"flag">>],
    Jumper(t, FALSE),
    Instruction(AiGenerate, <<>>),
    [Instruction(UtilsLog, <<>>) EXCEPT !.label = "cond",
                                        !.condition = Ident("flag")],
    Block(<<[Instruction(UtilsLog, <<>>) EXCEPT !.label = "inside"]>>),
    [Instruction(UtilsLog, IndexArgs) EXCEPT
       !.label = "each",
       !.forEach = ForEachArg(Ident("items"), "item")]>>

\* @no/such retry=r
UnknownCommandProgram(r) ==
  <<[Instruction(NoSuchCommand, <<>>) EXCEPT !.retry = RetryExpr(r)]>>

Data1(k, v) == [x \in {k} |-> v]
Data2(k1, v1, k2, v2) == [x \in {k1, k2} |-> IF x = k1 THEN v1 ELSE v2]

\* executeProgram(program, context) has built the label index and called
\* executeStatementList(program.body, context, labelIndex, [], 0)
Start(body, data) ==
  /\ program = body
  /\ labelIndex = buildEnhancedLabelIndex(body)
  /\ stack = <<ListFrame(<<>>, EmptyContext(data), 0)>>
  /\ ret = NoRet
  /\ outcome = [kind |-> "running"]
  /\ calls = <<>>

\* arguments one instruction can carry: each reserved argument, a second
\* output=, and two plain arguments
ArgNodes ==
  {OutputArg(<<"results">>), OutputArg(<<"scope", "results">>),
   CollectArg(<<"all">>), IfArg(Ident("go")),
   ForEachArg(Ident("items"), "item"), LabelArg("top"),
   RetryArg(Lit(Num(3))), Arg("x", Lit(Num(1))), Arg("y", Ident("item"))}

\* the arguments as written, in every order, none written twice
ArgLists ==
  UNION {{a \in [1..n -> ArgNodes] : \A i, j \in 1..n : a[i] = a[j] => i = j}
           : n \in 0..MaxArgs}

StartParse(action, allArgs) ==
  /\ program = <<>>
  /\ labelIndex = EmptyMap
  /\ stack = <<ParseFrame(action, allArgs)>>
  /\ ret = NoRet
  /\ outcome = [kind |-> "parsing"]
  /\ calls = <<>>

\* texts that start with "~/": path characters, stars and a blank
PathTexts ==
  UNION {{<<"~", "/">> \o tail : tail \in [1..n -> PathChars \cup {Star, " "}]}
           : n \in 0..MaxTail}

StartParsePath(input) ==
  /\ program = <<>>
  /\ labelIndex = EmptyMap
  /\ stack = <<PathFrame(input)>>
  /\ ret = NoRet
  /\ outcome = [kind |-> "parsing"]
  /\ calls = <<>>

Init ==
  \/ \E r \in RetryChoices, o \in Targets : Start(RetryProgram(r, o), EmptyMap)
  \/ \E r \in RetryChoices, c \in Targets : Start(CollectProgram(r, c), EmptyMap)
  \/ \E r \in NumericRetryChoices, c \in Targets, items \in Iterables :
       Start(ForEachInstructionProgram(r, c), Data1("items", items))
  \/ \E items \in Iterables : Start(ForEachBlockProgram, Data1("items", items))
  \/ \E t \in Labels, f \in BOOLEAN : Start(RootJumpProgram(t, f), EmptyMap)
  \/ \E t \in Labels, f, go \in BOOLEAN :
       Start(NestedJumpProgram(t, f), Data1("go", Bool(go)))
  \/ \E t \in Labels, n \in 0..2, items \in ItemSeqs :
       Start(NestedForEachProgram(t),
             Data2("teams", Arr([k \in 1..n |-> Num(1)]), "items", Arr(items)))
  \/ \E r \in RetryChoices : Start(UnknownCommandProgram(r), EmptyMap)
  \/ \E id \in {FlowExit, FlowReturn}, f \in BOOLEAN, items \in ItemSeqs :
       Start(TerminatorProgram(id, f), Data1("items", Arr(items)))
  \/ \E items \in ItemSeqs, go \in {Num(0), Num(1)} :
       Start(OrderProgram, Data2("items", Arr(items), "go", go))
  \/ \E id \in {FlowGoto, FlowExit, FlowReturn}, signal \in Signals :
       Start(SignalProgram(id), Data1("signal", signal))
  \/ \E t \in {"cond", "inside", "each"}, go \in {Num(0), Num(1)},
          items \in ItemSeqs :
       Start(LandingProgram(t), Data2("go", go, "items", Arr(items)))
  \/ \E allArgs \in ArgLists : StartParse(AiGenerate, allArgs)
  \/ \E input \in PathTexts : StartParsePath(input)

Next ==
  \/ StatementListDone
  \/ StatementListForEachInstruction
  \/ StatementListSkipInstruction
  \/ StatementListInstruction
  \/ StatementListForEachBlock
  \/ StatementListSkipBlock
  \/ StatementListBlock
  \/ StatementListAfterForEachInstruction
  \/ StatementListAfterInstruction
  \/ StatementListAfterBlock
  \/ ForEachBlockStart
  \/ ForEachBlockIterate
  \/ ForEachBlockAfterBody
  \/ ForEachInstructionStart
  \/ ForEachInstructionIterate
  \/ ForEachInstructionAfterExecute
  \/ RetryStart
  \/ ExecuteCommandNotFound
  \/ ExecuteHandlerThrows
  \/ ExecuteHandlerReturns
  \/ RetryLoopExit
  \/ Propagate
  \/ ProgramThrows
  \/ ProgramReturns
  \/ ParseInstruction
  \/ ParsePathLiteral

Spec == Init /\ [][Next]_vars

\* every frame is one of the calls, and a result is only in flight
\* while the run is going on
TypeOK ==
  /\ \A k \in 1..Len(stack) :
       stack[k].fn \in {"executeStatementList", "executeForEachWithStatementList",
                        "executeForEachInstruction", "executeWithRetry",
                        "instruction", "pathLiteralParser"}
  /\ ret.kind \in {"none", "throw", "statement", "list"}
  /\ outcome.kind \in {"running", "normal", "earlyExit", "return", "failed",
                       "parsing", "parsed", "parseFailed", "rejected"}
  /\ Len(calls) <= MaxCalls

\* ------------------------------------------------------------------------
\* Reading the history of handler invocations
\* ------------------------------------------------------------------------
LastCall == calls[Len(calls)]

\* number of the last invocation that returned, 0 when none did
LastReturned ==
  IF \E c \in 1..Len(calls) : calls[c].returned
  THEN CHOOSE c \in 1..Len(calls) :
         /\ calls[c].returned
         /\ \A d \in 1..Len(calls) : calls[d].returned => d <= c
  ELSE 0

\* invocations that threw since the last one that returned
TrailingThrows == Len(calls) - LastReturned

\* the instruction a handler invocation was made for
CallInstruction(call) == NodeIn(program, call.path)

\* the retry argument of the invocation's instruction, evaluated as
\* executeWithRetry does, in the context the invocation ran in
RetryValue(call) == evaluate(CallInstruction(call).retry, call.context)

\* the instruction carries retry=N with N a non-negative integer
HasBudget(call) ==
  /\ Has(CallInstruction(call).retry)
  /\ RetryValue(call).t = "number"
  /\ RetryValue(call).n >= 0

Failure(error) == [kind |-> "failed", error |-> error]

\* ------------------------------------------------------------------------
\* C1 -- Retry exhaustion: for an instruction with retry=N (N >= 0) whose
\* handler keeps throwing, the handler is invoked exactly N+1 times: after
\* fewer than N+1 throws the run goes on, no further invocation is made
\* after the (N+1)-th throw, and from that throw on the error thrown by
\* that last invocation is what propagates and what executeProgram fails
\* with.  retry=0 gives exactly one invocation.
\* ------------------------------------------------------------------------
RetryExhaustion ==
  (calls # <<>> /\ ~LastCall.returned /\ HasBudget(LastCall)) =>
    LET n == RetryValue(LastCall).n
        lastError == HandlerError(Len(calls))
    IN /\ TrailingThrows <= n + 1
       /\ TrailingThrows = n + 1 =>
            \/ ret = Throw(lastError)
            \/ outcome = Failure(lastError)
       /\ TrailingThrows < n + 1 =>
            /\ ret.kind # "throw"
            /\ outcome.kind = "running"

\* a run that failed after retry=2 was exhausted by three throws
RetryExhaustionWitness ==
  /\ outcome.kind = "failed"
  /\ calls # <<>>
  /\ ~LastCall.returned
  /\ HasBudget(LastCall)
  /\ RetryValue(LastCall).n = 2
  /\ TrailingThrows = 3
  /\ outcome.error = HandlerError(Len(calls))

\* ------------------------------------------------------------------------
\* C2 -- A successful attempt stops retrying immediately: when the handler
\* of an instruction with retry=N returns after k throws (k <= N), the
\* retry wrapper returns at once (k+1 invocations, none after the one that
\* returned), its result is that of the invocation that returned (log entry
\* and output written from it), the caller appends that one log entry and,
\* the flow being continue, goes on with the next statement.
\* ------------------------------------------------------------------------
\* throws made right before invocation c
ThrowsBefore(c) ==
  LET returnedBefore == {d \in 1..(c - 1) : calls[d].returned}
      lastBefore == IF returnedBefore = {} THEN 0
                    ELSE CHOOSE d \in returnedBefore :
                           \A e \in returnedBefore : e <= d
  IN c - 1 - lastBefore

\* the wrapper has just returned the result of the last invocation
SuccessReturned ==
  ret.kind = "statement" =>
    /\ calls # <<>>
    /\ LastCall.returned
    /\ stack # <<>>
    /\ Top.fn # "executeWithRetry"
    /\ HasBudget(LastCall) => ThrowsBefore(Len(calls)) <= RetryValue(LastCall).n
    /\ ret.log.command = LastCall.id
    /\ ret.log.success = LastCall.result.success
    /\ ret.log.cost = LastCall.result.cost
    /\ ret.cost = LastCall.result.cost
    /\ (CallInstruction(LastCall).output # <<>> /\ LastCall.result.success) =>
         /\ ret.log.value = LastCall.result.value
         /\ ReadTarget(ret.context, CallInstruction(LastCall).output)
              = LastCall.result.value

\* a wrapper that is still trying (its command has a handler) has seen no
\* invocation return
NoAttemptAfterSuccess ==
  (/\ Running
   /\ stack # <<>>
   /\ Top.fn = "executeWithRetry"
   /\ Top.attempt > 0
   /\ Registered(CommandId(NodeIn(program, Top.path)))) =>
    /\ calls # <<>>
    /\ ~LastCall.returned
    /\ Top.attempt = TrailingThrows

\* the statement list takes the result: one more log entry, next statement
SuccessCommitted ==
  (/\ ret.kind = "statement"
   /\ stack # <<>>
   /\ Top.fn = "executeStatementList"
   /\ ret.flow.type = "continue") =>
         /\ Len(stack') = Len(stack)
         /\ stack'[Len(stack)].actions = Append(Top.actions, ret.log)
         /\ stack'[Len(stack)].totalCost = Top.totalCost + ret.cost
         /\ stack'[Len(stack)].i = Top.i + 1
         /\ stack'[Len(stack)].pc = "loop"
         /\ ret' = NoRet

SuccessStopsRetrying ==
  /\ [](SuccessReturned /\ NoAttemptAfterSuccess)
  /\ [][SuccessCommitted]_vars

\* retry=2, two throws, then the third invocation returned with success and
\* its value is in the output target
SuccessStopsRetryingWitness ==
  /\ ret.kind = "statement"
  /\ LastCall.returned
  /\ HasBudget(LastCall)
  /\ RetryValue(LastCall).n = 2
  /\ ThrowsBefore(Len(calls)) = 2
  /\ LastCall.result.success
  /\ CallInstruction(LastCall).output # <<>>
  /\ ReadTarget(ret.context, CallInstruction(LastCall).output) = Str("image")

\* ------------------------------------------------------------------------
\* C3 -- Per-item retry isolation: in an instruction with forEach and
\* retry=N every element that passes the filter has its own budget of N+1
\* attempts.  The attempt counter of the element being executed counts the
\* throws of that element only, an element is never invoked more than N+1
\* times nor after an invocation for it returned, and the run fails on an
\* element only when that element itself has thrown N+1 times.
\* ------------------------------------------------------------------------
\* invocations made for the instruction at path during iteration it
CallsOf(path, it) ==
  {c \in 1..Len(calls) : calls[c].path = path /\ calls[c].iteration = it}
ThrowsOf(path, it) == {c \in CallsOf(path, it) : ~calls[c].returned}
ReturnsOf(path, it) == {c \in CallsOf(path, it) : calls[c].returned}

\* invocations of an instruction that has forEach and retry=N, N >= 0
IsForEachRetryCall(call) ==
  /\ Has(CallInstruction(call).forEach)
  /\ HasBudget(call)

PerItemRetryIsolation ==
  /\ \A c \in 1..Len(calls) :
       IsForEachRetryCall(calls[c]) =>
         LET path == calls[c].path
             it == calls[c].iteration
             n == RetryValue(calls[c]).n
         IN /\ Cardinality(CallsOf(path, it)) <= n + 1
            /\ Cardinality(ReturnsOf(path, it)) <= 1
            /\ \A r \in ReturnsOf(path, it) : \A d \in CallsOf(path, it) : d <= r
            /\ (outcome = Failure(HandlerError(c))) =>
                 Cardinality(ThrowsOf(path, it)) = n + 1
  /\ (/\ Running
      /\ stack # <<>>
      /\ Top.fn = "executeWithRetry"
      /\ Top.pc = "loop"
      /\ Has(NodeIn(program, Top.path).forEach)) =>
       /\ Top.attempt = Cardinality(ThrowsOf(Top.path, IterationIndices))
       /\ ReturnsOf(Top.path, IterationIndices) = {}

\* retry=2: element 0 threw once and then returned (2 invocations), element 1
\* returned at its first invocation (1 invocation)
PerItemRetryIsolationWitness ==
  \E c \in 1..Len(calls) :
    /\ IsForEachRetryCall(calls[c])
    /\ RetryValue(calls[c]).n = 2
    /\ Cardinality(CallsOf(calls[c].path, <<0>>)) = 2
    /\ Cardinality(ReturnsOf(calls[c].path, <<0>>)) = 1
    /\ Cardinality(CallsOf(calls[c].path, <<1>>)) = 1
    /\ Cardinality(ReturnsOf(calls[c].path, <<1>>)) = 1

\* ------------------------------------------------------------------------
\* C4 -- Iteration counters are filter-invariant: in a forEach (block or
\* instruction) over a sequence of length L, every handler invocation made
\* for an element sees $length = L, $index = the element's position in the
\* unfiltered sequence and the iterator bound to that element, and the
\* element passes the condition.  Elements whose condition is falsy get no
\* invocation and no log entry: in a completed run the invoked positions
\* are exactly the passing ones and there is one log entry per invocation
\* that returned.
\* ------------------------------------------------------------------------
\* path of the innermost statement with forEach at or above path, <<>> if none
RECURSIVE EnclosingLoop(_)
EnclosingLoop(path) ==
  IF Has(NodeIn(program, path).forEach) THEN path
  ELSE IF Len(path) = 1 THEN <<>>
  ELSE EnclosingLoop(SubSeq(path, 1, Len(path) - 1))

\* log entries of the result of the run
Actions == outcome.batches[1].actions
HasResult == outcome.kind \in {"normal", "earlyExit", "return"}
ReturnedCalls == {c \in 1..Len(calls) : calls[c].returned}

\* the program is one forEach (statement 0) over data.items, filtered by
\* `if=<iterator>`: an element passes when it is truthy
IsFilteredLoop(statement) ==
  /\ Has(statement.forEach)
  /\ Has(statement.condition)
  /\ statement.forEach.iterable = Ident("items")
  /\ statement.condition = Ident(statement.forEach.iterator)

CountersSeen ==
  \A c \in 1..Len(calls) :
    EnclosingLoop(calls[c].path) # <<>> =>
      LET call == calls[c]
          loop == NodeIn(program, EnclosingLoop(call.path))
          iterable == evaluate(loop.forEach.iterable, call.context)
          index == call.iteration[Len(call.iteration)]
          chain == call.context.scopeChain
      IN /\ call.iteration # <<>>
         /\ lookup("$index", chain) = Num(index)
         /\ lookup("$length", chain) = Num(Len(iterable.a))
         /\ index < Len(iterable.a)
         /\ lookup(loop.forEach.iterator, chain) = At(iterable.a, index)
         /\ Has(loop.condition) => Truthy(evaluate(loop.condition, call.context))

FilteredElementsLeaveNoTrace ==
  (outcome.kind = "normal" /\ IsFilteredLoop(At(program, 0))) =>
    LET iterable == outcome.context.data["items"].a
    IN /\ \A j \in 0..(Len(iterable) - 1) :
            Truthy(At(iterable, j)) <=>
              \E c \in 1..Len(calls) : calls[c].iteration = <<j>>
       /\ Len(Actions) = Cardinality(ReturnedCalls)

ReturnedAt(path) ==
  SelectSeq(calls, LAMBDA call : call.path = path /\ call.returned)

\* a result whose value reaches the log entry of a collecting instruction:
\* success, and a value other than undefined (lines 221, 252, 471, 844)
Contributes(result) == result.success /\ result.value # Undefined

ContributingAt(path) ==
  SelectSeq(ReturnedAt(path), LAMBDA call : Contributes(call.result))

ValuesOf(returned) == [k \in 1..Len(returned) |-> returned[k].result.value]

\* positions of the elements that pass the condition of the loop statement
PassingPositions(statement, context) ==
  LET iterable == evaluate(statement.forEach.iterable, context)
  IN {j \in 0..(Len(iterable.a) - 1) :
        Has(statement.condition) =>
          Truthy(evaluate(statement.condition,
                          IterationContext(context, statement.forEach, iterable, j)))}

\* executeForEachInstruction has just returned, with flow continue, to the
\* list that runs an instruction with forEach and collect
ForEachCollectCompleted ==
  /\ Active("executeStatementList", "forEach")
  /\ ret.kind = "list"
  /\ ret.flow.type = "continue"
  /\ Statement.collect # <<>>

CollectResultArrived ==
  /\ Active("executeStatementList", "instruction")
  /\ ret.kind = "statement"
  /\ Statement.collect # <<>>
  /\ calls # <<>>
  /\ LastCall.returned
  /\ LastCall.path = StatementPath

\* the context the list goes on with, or returns, after taking a result
ContextAfter ==
  IF Len(stack') = Len(stack) THEN stack'[Len(stack)].context ELSE ret'.context

EmptyForEachReturned ==
  /\ Running
  /\ stack # <<>>
  /\ Top.fn = "executeStatementList"
  /\ Top.pc \in {"forEach", "block"}
  /\ ret.kind = "list"
  /\ Has(Statement.forEach)
  /\ evaluate(Statement.forEach.iterable, Top.context) = Arr(<<>>)

\* handler invocations made under the statement at path by the iteration
\* the list itself belongs to
InvocationsUnder(path) ==
  {c \in 1..Len(calls) :
     /\ IsPrefix(path, calls[c].path)
     /\ IsPrefix(IterationIndices, calls[c].iteration)}

\* C7 -- Empty iteration: a forEach (block or instruction) over an empty
\* sequence invokes no handler, returns no log entry and no cost with flow
\* continue, and the list that ran it appends nothing; an instruction with
\* collect=x returns the context with x written as the empty sequence and
\* nothing else changed, every other forEach returns the context unchanged.
EmptyIteration ==
  /\ [](EmptyForEachReturned =>
          /\ InvocationsUnder(StatementPath) = {}
          /\ ret.actions = <<>>
          /\ ret.cost = 0
          /\ ret.flow = Continue
          /\ IF Statement.type = "instruction" /\ Statement.collect # <<>>
             THEN /\ ReadTarget(ret.context, Statement.collect) = Arr(<<>>)
                  /\ ret.context = WriteTarget(Top.context, Statement.collect,
                                               Arr(<<>>))
             ELSE ret.context = Top.context)
  /\ [][EmptyForEachReturned =>
          /\ calls' = calls
          /\ Len(stack') = Len(stack)
          /\ stack'[Len(stack)].actions = Top.actions
          /\ stack'[Len(stack)].totalCost = Top.totalCost
          /\ stack'[Len(stack)].context = ret.context
          /\ stack'[Len(stack)].i = Top.i + 1]_vars

\* forEach over [] with collect=results: no invocation, results = []
EmptyIterationWitness ==
  /\ EmptyForEachReturned
  /\ Statement.type = "instruction"
  /\ Statement.collect = <<"results">>
  /\ calls = <<>>
  /\ ReadTarget(ret.context, <<"results">>) = Arr(<<>>)
  /\ "results" \notin DOMAIN Top.context.data

\* ------------------------------------------------------------------------
\* Jumps
\* ------------------------------------------------------------------------
\* a statement run by the innermost list has just yielded a jump to it
JumpArrived ==
  /\ Running
  /\ stack # <<>>
  /\ Top.fn = "executeStatementList"
  /\ Top.pc \in {"instruction", "forEach", "block"}
  /\ ret.kind \in {"statement", "list"}
  /\ ret.flow.type = "goto"

\* the jump that arrived names a label that is a direct child of the list
LocalJumpArrived ==
  /\ JumpArrived
  /\ resolveGoto(ret.flow.target, labelIndex, Top.currentPath).type = "local"

\* the list goes on at index
ResumesAt(index) ==
  /\ Len(stack') = Len(stack)
  /\ stack'[Len(stack)].fn = "executeStatementList"
  /\ stack'[Len(stack)].currentPath = Top.currentPath
  /\ stack'[Len(stack)].pc = "loop"
  /\ stack'[Len(stack)].i = index
  /\ ret' = NoRet

\* C8 -- Local jump resolution: whenever a statement run by a statement
\* list (plain instruction, instruction with forEach, or block) yields a
\* jump whose label is a direct child of that list, the list resumes at the
\* label's index instead of passing the jump to its enclosing list.
LocalJumpResolution ==
  [][LocalJumpArrived =>
       ResumesAt(resolveGoto(ret.flow.target, labelIndex,
                             Top.currentPath).index)]_vars

\* the same for the statements other than an instruction with forEach
LocalJumpResolutionWithoutForEach ==
  [][(LocalJumpArrived /\ Top.pc # "forEach") =>
       ResumesAt(resolveGoto(ret.flow.target, labelIndex,
                             Top.currentPath).index)]_vars

\* a nested list has the jump of one of its statements, and the label is
\* not a direct child of it
NonLocalJumpArrived ==
  /\ JumpArrived
  /\ resolveGoto(ret.flow.target, labelIndex, Top.currentPath).type = "non-local"

\* the running call returns the jump unresolved to its caller
ReturnsJump ==
  /\ stack' = SubSeq(stack, 1, Len(stack) - 1)
  /\ ret'.kind = "list"
  /\ ret'.flow = ret.flow

\* the body of a forEach block has returned a jump to the loop
JumpLeavesForEach ==
  /\ Active("executeForEachWithStatementList", "body")
  /\ ret.kind = "list"
  /\ ret.flow.type = "goto"

\* a block has returned a jump to the list that holds the label
BlockJumpResolvedHere ==
  /\ LocalJumpArrived
  /\ Top.pc = "block"

\* invocations made in the body of the forEach block at path for element k
BodyCalls(path, k) ==
  {c \in 1..Len(calls) :
     /\ IsPrefix(path, calls[c].path)
     /\ calls[c].iteration # <<>>
     /\ calls[c].iteration[1] = k}

\* C9 -- Jump bubbling: a list that gets a jump whose label is not its
\* direct child returns it unresolved; a forEach block whose body returns a
\* jump returns it too, with its iteration frame popped and without running
\* its remaining elements; the list of which the label is a direct child
\* resumes at the label's index.  When that list is the body of an outer
\* forEach iteration, the statements after the label run with the outer
\* loop's own $index and the outer loop goes on with its remaining elements.
JumpBubbling ==
  /\ [][NonLocalJumpArrived => ReturnsJump]_vars
  /\ [][JumpLeavesForEach =>
          /\ ReturnsJump
          /\ Len(ret'.context.scopeChain) = Len(Top.entry.scopeChain)
          /\ ret'.context.scopeChain = popScope(ret.context.scopeChain)]_vars
  /\ [][BlockJumpResolvedHere =>
          ResumesAt(resolveGoto(ret.flow.target, labelIndex,
                                Top.currentPath).index)]_vars
  /\ [](\A c \in 1..Len(calls) :
          (calls[c].path = <<0, 2>> /\ "idx" \in DOMAIN calls[c].args) =>
            /\ Len(calls[c].iteration) = 1
            /\ calls[c].args["idx"] = Num(calls[c].iteration[1])
            /\ lookup("$index", calls[c].context.scopeChain)
                 = Num(calls[c].iteration[1])
            /\ Len(calls[c].context.scopeChain) = 2)
  /\ [][(BlockJumpResolvedHere /\ Len(stack) > 1) =>
          stack'[Len(stack) - 1] = stack[Len(stack) - 1]]_vars
  /\ []((outcome.kind = "normal" /\ program = NestedForEachProgram("in")) =>
          \A k \in 0..(Len(outcome.context.data["teams"].a) - 1) :
            \E c \in BodyCalls(<<0>>, k) : calls[c].path = <<0, 2>>)

\* two teams, items <<1, 0>>: in each outer iteration the inner loop jumped
\* to "in" at its first element (its second element never ran), the outer
\* body resumed at "in" with $index 0 and then 1, and the run completed
JumpBubblingWitness ==
  /\ outcome.kind = "normal"
  /\ program = NestedForEachProgram("in")
  /\ Len(outcome.context.data["teams"].a) = 2
  /\ outcome.context.data["items"] = Arr(<<Num(1), Num(0)>>)
  /\ Len(calls) = 5
  /\ calls[1].id = FlowGoto /\ calls[1].iteration = <<0, 0>>
  /\ calls[2].path = <<0, 2>> /\ calls[2].args["idx"] = Num(0)
  /\ calls[3].id = FlowGoto /\ calls[3].iteration = <<1, 0>>
  /\ calls[4].path = <<0, 2>> /\ calls[4].args["idx"] = Num(1)

\* ------------------------------------------------------------------------
\* C10 -- Unknown label: a jump that the root list returns unresolved makes
\* executeProgram fail with "Unknown label: <target>", and the run keeps
\* that failure: it has no normal, early-exit or return result.  This is so
\* for a label missing from the label index and for a label no enclosing
\* list of the jump has as a direct child.
\* ------------------------------------------------------------------------
JumpReachedRoot ==
  /\ Running
  /\ stack = <<>>
  /\ ret.kind = "list"
  /\ ret.flow.type = "goto"

UnknownLabelFails ==
  /\ [][JumpReachedRoot =>
          /\ outcome' = Failure(UnknownLabel(ret.flow.target))
          /\ ~HasResult']_vars
  /\ [][outcome.kind = "failed" => outcome' = outcome]_vars
  /\ [](HasResult =>
          ~(ret.kind = "list" /\ ret.flow.type = "goto"))

\* a jump to "other", the label of a statement in a sibling block, was
\* made from inside a block and the run failed with Unknown label: other
UnknownLabelFailsWitness ==
  /\ outcome = Failure(UnknownLabel(Str("other")))
  /\ "other" \in DOMAIN labelIndex
  /\ calls # <<>>
  /\ LastCall.id = FlowGoto
  /\ Len(LastCall.path) = 2

\* ------------------------------------------------------------------------
\* Exit and return
\* ------------------------------------------------------------------------
Terminates(flow) == flow.type \in {"exit", "return"}

\* a call has returned exit or return to the call that made it
TerminationArrived ==
  /\ Running
  /\ stack # <<>>
  /\ ret.kind \in {"statement", "list"}
  /\ Terminates(ret.flow)

\* the flow signal an invocation that returned has yielded
YieldOf(call) == determineFlowControl(call.id, call.result.value)

\* handler invocations that yielded exit or return
Terminations ==
  {c \in 1..Len(calls) : calls[c].returned /\ Terminates(YieldOf(calls[c]))}

\* C11 -- Early-exit and return always reach the program boundary: a list,
\* block or forEach that gets exit(code) or return(value) from a statement
\* returns it unchanged at once; after the invocation that yielded it no
\* handler is invoked and no log entry is appended; executeProgram returns
\* an early-exit result with that code, or a return result with that value,
\* whose log ends with the entry of that instruction and whose context has
\* the data store as that instruction left it.
TerminationReachesBoundary ==
  /\ [][TerminationArrived =>
          /\ stack' = SubSeq(stack, 1, Len(stack) - 1)
          /\ ret'.kind = "list"
          /\ ret'.flow = ret.flow
          /\ calls' = calls
          /\ ret'.actions[Len(ret'.actions)].command = LastCall.id]_vars
  /\ [](\A c \in Terminations :
          /\ c = Len(calls)
          /\ outcome.kind \in {"running", "earlyExit", "return"}
          /\ outcome.kind = "running" =>
               /\ ret.kind \in {"statement", "list"}
               /\ ret.flow = YieldOf(calls[c])
          /\ outcome.kind = "earlyExit" =>
               /\ calls[c].id = FlowExit
               /\ outcome.exitCode = YieldOf(calls[c]).code
               /\ "code" \in DOMAIN calls[c].args =>
                    outcome.exitCode = calls[c].args["code"]
          /\ outcome.kind = "return" =>
               /\ calls[c].id = FlowReturn
               /\ outcome.value = YieldOf(calls[c]).value
               /\ "value" \in DOMAIN calls[c].args =>
                    outcome.value = calls[c].args["value"]
          /\ HasResult =>
               /\ Actions[Len(Actions)].command = calls[c].id
               /\ outcome.exitedAt = Len(Actions) - 1
               /\ Len(Actions) = Len(calls)
               /\ outcome.context.data = calls[c].context.data)
  /\ [](outcome.kind \in {"earlyExit", "return"} => Terminations # {})

\* forEach over <<0, 1>>: element 0 ran @utils/set and @utils/log, element 1
\* ran @utils/set and then @flow/exit code=3 inside the inner block; the run
\* ended there with exit code 3 and last = 1 in the data store
TerminationReachesBoundaryWitness ==
  /\ outcome.kind = "earlyExit"
  /\ outcome.exitCode = Num(3)
  /\ Len(calls) = 4
  /\ LastCall.id = FlowExit
  /\ LastCall.path = <<0, 1, 0>>
  /\ LastCall.iteration = <<1>>
  /\ outcome.context.data["last"] = Num(1)
  /\ Len(Actions) = 4

\* ------------------------------------------------------------------------
\* System variables
\* ------------------------------------------------------------------------
\* handler invocations made inside a forEach
LoopCalls == {c \in 1..Len(calls) : EnclosingLoop(calls[c].path) # <<>>}

\* 0-based position of the element the invocation was made for, in the
\* innermost forEach around it
PositionOf(call) == call.iteration[Len(call.iteration)]

\* length of the sequence that forEach iterates
LengthOf(call) ==
  Len(evaluate(NodeIn(program, EnclosingLoop(call.path)).forEach.iterable,
               call.context).a)

\* the system variable as the invocation's context has it
Seen(call, name) == lookup(name, call.context.scopeChain)

\* C12 -- System variable values: in every forEach iteration over a
\* sequence of length L at 0-based position i, $index = i, $count = i + 1,
\* $length = L, $first = (i = 0), $last = (i = L - 1), $odd = ($count is
\* odd), $even = ($count is even); exactly one of $odd / $even is true,
\* $first is true only at i = 0 and $last only at i = L - 1.
SystemVariableValues ==
  \A c \in LoopCalls :
    LET call == calls[c]
        i == PositionOf(call)
        L == LengthOf(call)
    IN /\ 0 <= i /\ i < L
       /\ Seen(call, "$index") = Num(i)
       /\ Seen(call, "$count") = Num(i + 1)
       /\ Seen(call, "$length") = Num(L)
       /\ Seen(call, "$first") = Bool(i = 0)
       /\ Seen(call, "$last") = Bool(i = L - 1)
       /\ Seen(call, "$odd") = Bool(Seen(call, "$count").n % 2 = 1)
       /\ Seen(call, "$even") = Bool(Seen(call, "$count").n % 2 = 0)
       /\ Seen(call, "$odd").b # Seen(call, "$even").b
       /\ Seen(call, "$first").b <=> i = 0
       /\ Seen(call, "$last").b <=> i = L - 1

\* an invocation for the second of two elements: $index 1, $count 2,
\* $length 2, not $first, $last, $even
SystemVariableValuesWitness ==
  \E c \in LoopCalls :
    /\ PositionOf(calls[c]) = 1
    /\ LengthOf(calls[c]) = 2
    /\ Seen(calls[c], "$count") = Num(2)
    /\ Seen(calls[c], "$first") = Bool(FALSE)
    /\ Seen(calls[c], "$last") = Bool(TRUE)
    /\ Seen(calls[c], "$even") = Bool(TRUE)
    /\ Seen(calls[c], "$odd") = Bool(FALSE)

\* the program is an outer forEach block whose first statement is an inner
\* forEach block, followed by statements of the outer body
IsNestedForEach ==
  /\ Len(program) > 0
  /\ At(program, 0).type = "block"
  /\ Has(At(program, 0).forEach)
  /\ At(At(program, 0).body, 0).type = "block"
  /\ Has(At(At(program, 0).body, 0).forEach)

\* invocations made by the inner body, and by the outer body after the
\* inner block
InnerCalls == {c \in 1..Len(calls) : IsPrefix(<<0, 0>>, calls[c].path)}
OuterCalls ==
  {c \in 1..Len(calls) : IsPrefix(<<0>>, calls[c].path) /\ c \notin InnerCalls}

\* C13 -- Nested forEach shadowing and restoration: with an inner forEach
\* block nested in an outer forEach block, statements of the inner body see
\* the inner element's $index and iterator, and statements of the outer
\* body run after the inner block see the outer element's $index again
\* (the inner frame is gone, the inner iterator is no longer bound), in
\* every outer iteration.
NestedShadowing ==
  IsNestedForEach =>
    /\ \A c \in InnerCalls :
         LET call == calls[c]
         IN /\ Len(call.iteration) = 2
            /\ Len(call.context.scopeChain) = 3
            /\ Seen(call, "$index") = Num(call.iteration[2])
            /\ Seen(call, "item") = At(call.context.data["items"].a, call.iteration[2])
            /\ Seen(call, "team") = At(call.context.data["teams"].a, call.iteration[1])
            /\ "idx" \in DOMAIN call.args => call.args["idx"] = Num(call.iteration[2])
    /\ \A c \in OuterCalls :
         LET call == calls[c]
         IN /\ Len(call.iteration) = 1
            /\ Len(call.context.scopeChain) = 2
            /\ Seen(call, "$index") = Num(call.iteration[1])
            /\ Seen(call, "$length") = Num(Len(call.context.data["teams"].a))
            /\ Seen(call, "item") = Undefined
            /\ "idx" \in DOMAIN call.args => call.args["idx"] = Num(call.iteration[1])
    /\ (outcome.kind = "normal" /\ \A c \in 1..Len(calls) : calls[c].id # FlowGoto) =>
         \A k \in 0..(Len(outcome.context.data["teams"].a) - 1) :
           \E c \in OuterCalls : calls[c].iteration = <<k>>

\* second outer iteration: the inner body ran with $index 0, and the outer
\* statement after the inner block then ran with $index 1
NestedShadowingWitness ==
  /\ IsNestedForEach
  /\ \E c \in OuterCalls, d \in InnerCalls :
       /\ d < c
       /\ calls[d].path = <<0, 0, 1>>
       /\ calls[d].iteration = <<1, 0>>
       /\ calls[d].args["idx"] = Num(0)
       /\ calls[c].path = <<0, 2>>
       /\ calls[c].iteration = <<1>>
       /\ calls[c].args["idx"] = Num(1)

\* ------------------------------------------------------------------------
\* Reserved arguments of a parsed instruction
\* ------------------------------------------------------------------------
ReservedTypes ==
  {"output-arg", "if-arg", "forEach-arg", "label-arg", "retry-arg", "collect-arg"}

\* the arguments of the given type, in the order written
ArgsOfType(allArgs, type) == SelectSeq(allArgs, LAMBDA arg : ArgType(arg) = type)

\* a valid combination: each reserved argument at most once, and not
\* output= together with collect=
ValidCombination(allArgs) ==
  /\ \A type \in ReservedTypes : Len(ArgsOfType(allArgs, type)) <= 1
  /\ ArgsOfType(allArgs, "output-arg") = <<>> \/ ArgsOfType(allArgs, "collect-arg") = <<>>

\* the same arguments written in another order, the plain ones keeping
\* their order
Reorderings(allArgs) ==
  {q \in {[k \in DOMAIN allArgs |-> allArgs[p[k]]] : p \in Permutations(DOMAIN allArgs)} :
     ArgsOfType(q, "argument") = ArgsOfType(allArgs, "argument")}

\* the field a reserved argument gives the node, absent when not written
FieldOf(allArgs, type, absent, value(_)) ==
  IF ArgsOfType(allArgs, type) = <<>> THEN absent
  ELSE value(ArgsOfType(allArgs, type)[1])

\* C14 -- Order independence of reserved arguments: for an instruction
\* whose reserved arguments form a valid combination, every permutation of
\* the textual order of its arguments (the plain ones keeping their order)
\* parses to the same instruction node: output, condition, forEach, label,
\* retry and collect are those written, wherever they stand, and the plain
\* arguments are listed in the order written.
OrderIndependence ==
  /\ [](Parsing =>
          LET allArgs == Top.allArgs
              parsed == instructionNode(Top.action, allArgs)
          IN ValidCombination(allArgs) =>
               /\ \A q \in Reorderings(allArgs) :
                    instructionNode(Top.action, q) = parsed
               /\ parsed.kind = "parsed"
               /\ parsed.node.action = Top.action
               /\ parsed.node.args = ArgsOfType(allArgs, "argument")
               /\ parsed.node.output
                    = FieldOf(allArgs, "output-arg", <<>>, LAMBDA a : a.target)
               /\ parsed.node.condition
                    = FieldOf(allArgs, "if-arg", Absent, LAMBDA a : a.condition)
               /\ parsed.node.forEach
                    = FieldOf(allArgs, "forEach-arg", Absent, LAMBDA a : a)
               /\ parsed.node.label
                    = FieldOf(allArgs, "label-arg", "", LAMBDA a : a.name)
               /\ parsed.node.retry
                    = FieldOf(allArgs, "retry-arg", Absent, LAMBDA a : a.count)
               /\ parsed.node.collect
                    = FieldOf(allArgs, "collect-arg", <<>>, LAMBDA a : a.target))
  /\ [][Parsing =>
          /\ outcome'.source = Top.allArgs
          /\ ValidCombination(Top.allArgs) =>
               /\ outcome'.kind = "parsed"
               /\ \A q \in Reorderings(Top.allArgs) :
                    instructionNode(Top.action, q).node = outcome'.node]_vars

\* `retry=3 if=go collect=all forEach=items->item` has been parsed: all four
\* fields are set
OrderIndependenceWitness ==
  /\ outcome.kind = "parsed"
  /\ outcome.node.type = "instruction"
  /\ outcome.source = <<RetryArg(Lit(Num(3))), IfArg(Ident("go")),
                        CollectArg(<<"all">>), ForEachArg(Ident("items"), "item")>>
  /\ outcome.node.retry = Lit(Num(3))
  /\ outcome.node.condition = Ident("go")
  /\ outcome.node.collect = <<"all">>
  /\ outcome.node.forEach = ForEachArg(Ident("items"), "item")
  /\ outcome.node.args = <<>>

\* C15 -- Mutual exclusivity of output and collect: parsing an instruction
\* that carries both output= and collect= fails with 'Cannot use both
\* output= and collect= on the same instruction', whichever comes first and
\* wherever they stand among the other arguments; an instruction that does
\* not carry both is parsed, and no node has both fields set.
OutputCollectExclusive ==
  /\ [][Parsing =>
          LET both == /\ ArgsOfType(Top.allArgs, "output-arg") # <<>>
                      /\ ArgsOfType(Top.allArgs, "collect-arg") # <<>>
          IN IF both
             THEN /\ outcome'.kind = "parseFailed"
                  /\ outcome'.error = BothOutputAndCollect
             ELSE outcome'.kind = "parsed"]_vars
  /\ []((outcome.kind = "parsed" /\ outcome.node.type = "instruction") =>
          ~(outcome.node.output # <<>> /\ outcome.node.collect # <<>>))
  /\ [](outcome.kind = "parseFailed" =>
          /\ outcome.error = BothOutputAndCollect
          /\ ArgsOfType(outcome.source, "output-arg") # <<>>
          /\ ArgsOfType(outcome.source, "collect-arg") # <<>>)

\* `x=1 collect=all if=go output=results` was rejected: collect= first,
\* other arguments before and between
OutputCollectExclusiveWitness ==
  /\ outcome.kind = "parseFailed"
  /\ outcome.error = BothOutputAndCollect
  /\ outcome.source = <<Arg("x", Lit(Num(1))), CollectArg(<<"all">>),
                        IfArg(Ident("go")), OutputArg(<<"results">>)>>

\* ------------------------------------------------------------------------
\* Path literals
\* ------------------------------------------------------------------------
\* two dots in a row somewhere in the text
HasDotDot(text) ==
  \E i \in 1..(Len(text) - 1) : text[i] = "." /\ text[i + 1] = "."

IsPathLiteral(result) ==
  /\ result.kind = "parsed"
  /\ result.node.type \in {"literal-file", "literal-glob"}

\* C16 -- Path literal security: no file-path or glob-path literal the
\* parser produces has a value with '..' in it, and a '~/'-prefixed match
\* with '..' in it is rejected by the glob production and by the file
\* production, so that a text whose path run contains '..' gives no path
\* literal that reaches the '..'.
PathLiteralSecurity ==
  /\ [](IsPathLiteral(outcome) =>
          /\ ~HasDotDot(outcome.node.value)
          /\ StartsWithTildeSlash(outcome.source)
          /\ ~HasDotDot(SubSeq(outcome.source, 1, Len(outcome.node.value))))
  /\ [](ParsingPath =>
          LET file == filePathRegex(Top.input)
              glob == globPathRegex(Top.input)
          IN /\ (file.matched /\ HasDotDot(file.text)) =>
                  ~fileLiteralParser(Top.input).accepted
             /\ (glob.matched /\ HasDotDot(glob.text)) =>
                  ~globLiteralParser(Top.input).accepted
             /\ (file.matched /\ HasDotDot(file.text)) =>
                  pathLiteralParser(Top.input).kind = "rejected")
  /\ [][ParsingPath => outcome' =
          ParseResult(pathLiteralParser(Top.input), Top.input)]_vars

\* ~/a/../a was rejected, by the file production and by the glob production
PathLiteralSecurityWitness ==
  /\ outcome.kind = "rejected"
  /\ outcome.source = <<"~", "/", "a", "/", ".", ".", "/">>
  /\ filePathRegex(outcome.source).matched
  /\ ~fileLiteralParser(outcome.source).accepted

\* ------------------------------------------------------------------------
\* Unknown command
\* ------------------------------------------------------------------------
\* execute is about to resolve an action id that has no handler
ResolvingUnknownCommand ==
  /\ CanExecute
  /\ ~Registered(CommandId(NodeIn(program, Top.path)))

\* the retry wrapper of an instruction with an unknown command is looping
RetryingUnknownCommand ==
  /\ Running
  /\ stack # <<>>
  /\ Top.fn = "executeWithRetry"
  /\ Top.pc = "loop"
  /\ ~Registered(CommandId(NodeIn(program, Top.path)))

\* C17 as stated: the failure is not subject to the retry budget, one
\* attempt (one registry resolution) is made whatever retry=N says.
UnknownCommandNotRetried ==
  RetryingUnknownCommand => Top.attempt = 0

\* C17 -- Unknown command is fatal: an instruction whose action id resolves
\* to no handler fails the run with 'Command not found: <id>' and no handler
\* is invoked; the error passes through the retry wrapper like any other,
\* so with retry=N (N >= 0) every one of the N+1 attempts resolves the id
\* again and the error of the last one propagates; without retry one attempt
\* is made.
UnknownCommandFatal ==
  /\ [][ResolvingUnknownCommand =>
          LET error == CommandNotFound(CommandId(NodeIn(program, Top.path)))
          IN /\ calls' = calls
             /\ IF Top.pc = "direct" \/ Top.attempt = Top.maxRetries
                THEN /\ ret' = Throw(error)
                     /\ stack' = SubSeq(stack, 1, Len(stack) - 1)
                ELSE /\ Len(stack') = Len(stack)
                     /\ stack'[Len(stack)].attempt = Top.attempt + 1
                     /\ stack'[Len(stack)].lastError = error
                     /\ ret' = NoRet]_vars
  /\ [](RetryingUnknownCommand =>
          /\ calls = <<>>
          /\ Top.attempt > 0 =>
               /\ Top.attempt <= Top.maxRetries
               /\ Top.lastError = CommandNotFound(CommandId(NodeIn(program, Top.path))))
  /\ []((/\ outcome.kind = "failed"
          /\ "name" \in DOMAIN outcome.error
          /\ outcome.error.name = "Command not found") =>
          /\ calls = <<>>
          /\ \E k \in 1..Len(program) :
               /\ program[k].type = "instruction"
               /\ outcome.error = CommandNotFound(CommandId(program[k])))

\* @no/such retry=2: two resolutions have failed and were caught, the third
\* attempt is due
UnknownCommandFatalWitness ==
  /\ RetryingUnknownCommand
  /\ Top.maxRetries = 2
  /\ Top.attempt = 2
  /\ Top.lastError = CommandNotFound(NoSuchCommand)
  /\ calls = <<>>

\* ------------------------------------------------------------------------
\* Iterating a value that is not a sequence
\* ------------------------------------------------------------------------
\* a forEach (block or instruction) is about to evaluate its iterable
ForEachStarting ==
  /\ Running
  /\ stack # <<>>
  /\ Top.fn \in {"executeForEachWithStatementList", "executeForEachInstruction"}
  /\ Top.pc = "start"
  /\ ret = NoRet

IterableOf(frame) ==
  evaluate(NodeIn(program, frame.path).forEach.iterable, frame.context)

\* the name the error gives the offending value
OffendingType(v) ==
  CASE v = Null -> "null"
    [] v.t = "string" -> "string"
    [] v.t = "number" -> "number"
    [] v.t = "boolean" -> "boolean"
    [] v.t = "undefined" -> "undefined"
    [] OTHER -> "object"

\* C18 -- Iterating a non-sequence is fatal: when the iterable of a forEach
\* (block or instruction) evaluates to anything other than a sequence, the
\* forEach throws an error naming the offending type ('null' for null,
\* otherwise the runtime type) at once: no scope frame has been pushed, no
\* handler is invoked, no collect target is written, and the run fails with
\* that error.
NonSequenceIsFatal ==
  /\ [][(ForEachStarting /\ IterableOf(Top).t # "array") =>
          /\ ret' = Throw(CannotIterate(OffendingType(IterableOf(Top))))
          /\ stack' = SubSeq(stack, 1, Len(stack) - 1)
          /\ calls' = calls
          /\ Top.context = Top.entry]_vars
  /\ [][(ForEachStarting /\ IterableOf(Top).t = "array") =>
          ret'.kind # "throw"]_vars
  /\ []((/\ outcome.kind = "failed"
         /\ "name" \in DOMAIN outcome.error
         /\ outcome.error.name = "Cannot iterate") =>
          /\ outcome.error.type \in {"null", "string"}
          /\ InvocationsUnder(<<0>>) = {})
  /\ []((ret.kind = "throw" /\ stack # <<>> /\ Top.fn = "executeStatementList"
           /\ "name" \in DOMAIN ret.error /\ ret.error.name = "Cannot iterate") =>
          /\ Has(Statement.forEach)
          /\ ret.error.type
               = OffendingType(evaluate(Statement.forEach.iterable, Top.context))
          /\ Len(Top.context.scopeChain) = 1
          /\ Statement.type = "instruction" =>
               ReadTarget(Top.context, <<"results">>) = Undefined)

\* forEach=items->item collect=results with items = null: the run failed
\* with "Cannot iterate over null" and no handler was invoked
NonSequenceIsFatalWitness ==
  /\ outcome = Failure(CannotIterate("null"))
  /\ calls = <<>>
  /\ At(program, 0).type = "instruction"
  /\ At(program, 0).collect = <<"results">>

\* ------------------------------------------------------------------------
\* Conditions without forEach
\* ------------------------------------------------------------------------
\* the list is at a statement without forEach whose condition is falsy
AtFalsyStatement(type) ==
  /\ AtStatement
  /\ Statement.type = type
  /\ ~Has(Statement.forEach)
  /\ Has(Statement.condition)
  /\ ~Truthy(evaluate(Statement.condition, Top.context))

\* executeBlockWithStatementList has returned for a block it skipped
SkippedBlockReturned ==
  /\ Active("executeStatementList", "block")
  /\ ret # NoRet
  /\ ~Has(Statement.forEach)
  /\ Has(Statement.condition)
  /\ ~Truthy(evaluate(Statement.condition, Top.context))

\* the list goes on with the next sibling, nothing else changed
NextSibling ==
  /\ stack' = [stack EXCEPT ![Len(stack)] = [Top EXCEPT !.i = @ + 1, !.pc = "loop"]]
  /\ ret' = NoRet
  /\ calls' = calls
  /\ outcome' = outcome

\* what is running directly under frame k of the stack was let in by the
\* condition of the statement frame k is at, evaluated in frame k's context
ConditionLetIn(k) ==
  LET frame == stack[k]
      statement == At(StatementsAt(program, frame.currentPath), frame.i)
  IN (/\ frame.pc \in {"instruction", "block"}
      /\ ~Has(statement.forEach)
      /\ Has(statement.condition)) =>
        Truthy(evaluate(statement.condition, frame.context))

\* the body of a block with a condition is running
InConditionalBody ==
  /\ Len(stack) > 1
  /\ AtStatement
  /\ stack[Len(stack) - 1].fn = "executeStatementList"
  /\ stack[Len(stack) - 1].pc = "block"
  /\ Has(NodeIn(program, Top.currentPath).condition)

\* C19 -- Falsy condition skips entirely: for an instruction without
\* forEach, or a block without forEach, whose condition evaluates to a falsy
\* value, no handler of that instruction (or of any statement in the block
\* body) is invoked, no log entry is appended, no cost is added, the context
\* is passed on unchanged, and execution continues with the next sibling;
\* the block condition is evaluated exactly once, on entry: the body it let
\* in runs on whatever the body does to the condition's variables.
FalsyConditionSkips ==
  /\ [][AtFalsyStatement("instruction") => NextSibling]_vars
  /\ [][AtFalsyStatement("block") =>
          /\ calls' = calls
          /\ Len(stack') = Len(stack)
          /\ SkippedBlockReturned']_vars
  /\ [][SkippedBlockReturned => NextSibling]_vars
  /\ [](Running =>
          \A k \in 1..(Len(stack) - 1) :
            stack[k].fn = "executeStatementList" => ConditionLetIn(k))
  /\ [][InConditionalBody => Len(stack') >= Len(stack)]_vars

\* the block `if=go` was skipped with go = 0: nothing under it was invoked,
\* the sibling after it ran and its log entry is the only one
FalsyConditionSkipsWitness ==
  /\ program = OrderProgram
  /\ outcome.kind = "normal"
  /\ ReadTarget(outcome.context, <<"go">>) = Num(0)
  /\ Len(calls) = 1
  /\ calls[1].path = <<2>>
  /\ Len(outcome.batches[1].actions) = 1
  /\ outcome.cost = 0

\* the block `if=go` was entered with go = 1, its first statement set go to
\* 0 and its second statement ran all the same
ConditionEvaluatedOnceWitness ==
  /\ program = OrderProgram
  /\ \E c \in 1..Len(calls) :
       /\ calls[c].path = <<1, 1>>
       /\ calls[c].returned

\* ------------------------------------------------------------------------
\* Order of log entries and data-store writes
\* ------------------------------------------------------------------------
\* log entries a frame or a result holds
EntriesOf(holder) ==
  IF "actions" \in DOMAIN holder THEN holder.actions
  ELSE IF "log" \in DOMAIN holder THEN <<holder.log>>
  ELSE <<>>

\* the action log as built so far: outermost frame first, then what is
\* being returned
RECURSIVE LogOf(_)
LogOf(frames) ==
  IF frames = <<>> THEN <<>>
  ELSE LogOf(SubSeq(frames, 1, Len(frames) - 1)) \o EntriesOf(frames[Len(frames)])

LogSoFar == LogOf(stack) \o EntriesOf(ret)

\* handler invocations that returned, in the order they returned
ReturnedInOrder == SelectSeq(calls, LAMBDA call : call.returned)

CommandsOf(log) == [k \in 1..Len(log) |-> log[k].command]
IdsOf(invocations) == [k \in 1..Len(invocations) |-> invocations[k].id]

\* the invocation wrote its value to the data store
WroteData(call) ==
  /\ call.returned
  /\ call.result.success
  /\ NodeIn(program, call.path).output # <<>>
  /\ NodeIn(program, call.path).output[1] # "scope"

FinalLog ==
  IF outcome.kind \in {"normal", "earlyExit", "return"}
  THEN outcome.batches[1].actions
  ELSE <<>>

\* elements of OrderProgram's forEach that are invoked: go is truthy on
\* entry and every element before is truthy (each passing element writes
\* itself to go, which is the condition of the next one)
ElementsInOrder(go, items) ==
  {<<j - 1>> : j \in {e \in 1..Len(items) :
                        /\ Truthy(go)
                        /\ \A m \in 1..(e - 1) : Truthy(items[m])}}

\* C20 -- Strict execution order: the action log of a run lists entries in
\* the order in which the handler invocations returned, and data-store
\* writes are applied in that same order; within a forEach, every log entry
\* and every data-store write produced for element i is committed before any
\* condition evaluation or handler invocation for element i+1, so element
\* i+1 observes element i's writes.
StrictExecutionOrder ==
  /\ []((Running /\ ret.kind # "throw") =>
          CommandsOf(LogSoFar) = IdsOf(ReturnedInOrder))
  /\ [](outcome.kind \in {"normal", "earlyExit", "return"} =>
          CommandsOf(FinalLog) = IdsOf(ReturnedInOrder))
  /\ [](\A c \in 1..(Len(calls) - 1) :
          WroteData(calls[c]) =>
            ReadTarget(calls[c + 1].context, NodeIn(program, calls[c].path).output)
              = calls[c].result.value)
  /\ []((/\ Running
         /\ stack # <<>>
         /\ Top.fn \in {"executeForEachWithStatementList", "executeForEachInstruction"}
         /\ Top.pc = "loop"
         /\ ret = NoRet
         /\ calls # <<>>
         /\ WroteData(calls[Len(calls)])) =>
          /\ ReadTarget(Top.context, NodeIn(program, calls[Len(calls)].path).output)
               = calls[Len(calls)].result.value
          /\ LogOf(stack)[Len(LogOf(stack))].command = calls[Len(calls)].id)
  /\ []((\E id \in {FlowExit, FlowReturn}, f \in BOOLEAN :
            program = TerminatorProgram(id, f)) =>
          \A c \in 1..Len(calls) :
            (calls[c].path = <<0, 0>> /\ calls[c].iteration # <<0>>) =>
              ReadTarget(calls[c].context, <<"last">>)
                = Num(calls[c].iteration[1] - 1))
  /\ []((program = OrderProgram /\ outcome.kind = "normal") =>
          \E go \in {Num(0), Num(1)}, items \in ItemSeqs :
            {calls[c].iteration : c \in {d \in 1..Len(calls) : calls[d].path = <<0>>}}
              = ElementsInOrder(go, items))

\* forEach=items->item if=go output=go over <<1, 0>> with go = 1: element 0
\* wrote go = 1 and passed, element 1 saw it and wrote go = 0, the block
\* `if=go` after the loop was skipped, and the log lists the three
\* invocations in the order they returned
StrictExecutionOrderWitness ==
  /\ program = OrderProgram
  /\ outcome.kind = "normal"
  /\ Len(calls) = 3
  /\ calls[1].iteration = <<0>>
  /\ calls[2].iteration = <<1>>
  /\ ReadTarget(calls[2].context, <<"go">>) = Num(1)
  /\ ReadTarget(calls[3].context, <<"go">>) = Num(0)
  /\ calls[3].path = <<2>>
  /\ CommandsOf(FinalLog) = <<UtilsSet, UtilsSet, UtilsLog>>

\* ------------------------------------------------------------------------
\* Failed attempts
\* ------------------------------------------------------------------------
\* this step is a handler invocation that throws
AttemptThrows ==
  /\ CanExecute
  /\ Len(calls') = Len(calls) + 1
  /\ ~calls'[Len(calls')].returned

\* invocation c threw and invocation c + 1 is the next attempt at the same
\* instruction for the same element
NextAttempt(c) ==
  /\ c < Len(calls)
  /\ ~calls[c].returned
  /\ calls[c + 1].path = calls[c].path
  /\ calls[c + 1].iteration = calls[c].iteration

\* C21 -- A failed attempt commits nothing: when a handler invocation throws
\* during an attempt, that attempt adds no log entry and no cost and writes
\* no output or collect target (no frame below the retry wrapper changes,
\* and the wrapper keeps its context); the next attempt is run against the
\* same context value as the failed one, and if the budget is exhausted the
\* error propagates without any context being returned to the caller.
FailedAttemptCommitsNothing ==
  /\ [][AttemptThrows =>
          /\ SubSeq(stack', 1, Len(stack) - 1) = SubSeq(stack, 1, Len(stack) - 1)
          /\ \/ /\ Top.pc = "loop"
                /\ Top.attempt < Top.maxRetries
                /\ Len(stack') = Len(stack)
                /\ stack'[Len(stack)].context = Top.context
                /\ stack'[Len(stack)].attempt = Top.attempt + 1
                /\ ret' = NoRet
             \/ /\ Top.pc = "direct" \/ Top.attempt = Top.maxRetries
                /\ Len(stack') = Len(stack) - 1
                /\ ret' = Throw(HandlerError(Len(calls')))]_vars
  /\ [](\A c \in 1..Len(calls) :
          NextAttempt(c) =>
            /\ calls[c + 1].context = calls[c].context
            /\ calls[c + 1].args = calls[c].args)
  /\ [](ret.kind = "throw" => DOMAIN ret = {"kind", "error"})
  /\ [][ret.kind = "throw" =>
          /\ ret'.kind \in {"throw", "none"}
          /\ calls' = calls
          /\ ret'.kind = "none" => outcome' = Failure(ret.error)]_vars
  /\ [](outcome.kind = "failed" => DOMAIN outcome = {"kind", "error"})

\* @ai/generateImage retry=2 output=results: the first two attempts threw,
\* the third one is about to run on the context the first one had, in which
\* results is still unset
FailedAttemptCommitsNothingWitness ==
  /\ CanExecute
  /\ Top.pc = "loop"
  /\ Top.attempt = 2
  /\ Len(calls) = 2
  /\ ~calls[1].returned
  /\ ~calls[2].returned
  /\ NodeIn(program, Top.path).output = <<"results">>
  /\ Top.context = calls[1].context
  /\ ReadTarget(Top.context, <<"results">>) = Undefined

\* ------------------------------------------------------------------------
\* Depth of the scope chain
\* ------------------------------------------------------------------------
Depth(context) == Len(context.scopeChain)

IsForEachFrame(frame) ==
  frame.fn \in {"executeForEachWithStatementList", "executeForEachInstruction"}

\* this step is a forEach returning a result to its caller
ForEachReturns ==
  /\ Running
  /\ stack # <<>>
  /\ IsForEachFrame(Top)
  /\ Len(stack') = Len(stack) - 1
  /\ ret'.kind = "list"

\* the iteration of the forEach at frame k is running its body or handler
IterationRunning(k) ==
  /\ IsForEachFrame(stack[k])
  /\ stack[k].pc \in {"body", "execute"}
  /\ k < Len(stack)

\* C22 -- Scope chain is a strict stack: every forEach execution (block or
\* instruction) that returns -- whether it ends with continue, goto, exit or
\* return, and whether elements were filtered or not -- returns a context
\* whose scope-chain depth equals the depth at entry; while the body or
\* handler of one iteration runs the depth is exactly the entry depth plus
\* one, so no iteration frame outlives its iteration.
ScopeChainIsStack ==
  /\ [][ForEachReturns => Depth(ret'.context) = Depth(Top.entry)]_vars
  /\ [](Running =>
          \A k \in 1..Len(stack) :
            /\ IterationRunning(k) =>
                 /\ Depth(stack[k].context) = Depth(stack[k].entry) + 1
                 /\ Depth(stack[k + 1].context) = Depth(stack[k].entry) + 1
            /\ (IsForEachFrame(stack[k]) /\ stack[k].pc = "loop") =>
                 Depth(stack[k].context) = Depth(stack[k].entry))
  /\ [](\A c \in 1..Len(calls) :
          Depth(calls[c].context) = 1 + Len(calls[c].iteration))
  /\ [](outcome.kind \in {"normal", "earlyExit", "return"} =>
          Depth(outcome.context) = 1)

\* @flow/exit forEach=[1]->x inside a block `if=item` inside a forEach block:
\* the handler ran two frames deep, the exit went through both loops, and
\* the context the run returned has the depth it started with
ScopeChainIsStackWitness ==
  /\ program = TerminatorProgram(FlowExit, TRUE)
  /\ outcome.kind = "earlyExit"
  /\ Depth(outcome.context) = 1
  /\ calls # <<>>
  /\ LastCall.id = FlowExit
  /\ Len(LastCall.iteration) = 2
  /\ Depth(LastCall.context) = 3

\* ------------------------------------------------------------------------
\* Where flow signals come from
\* ------------------------------------------------------------------------
\* the type tag a flow action's value must carry
TagOf(id) ==
  CASE id = FlowGoto -> "goto"
    [] id = FlowExit -> "exit"
    [] id = FlowReturn -> "return"
    [] OTHER -> "none"

\* the value is an object whose type field is the tag
Tagged(value, tag) ==
  /\ value.t = "object"
  /\ "type" \in DOMAIN value
  /\ value.type = tag

\* execute has returned the result of the last invocation
InstructionYielded ==
  /\ ret.kind = "statement"
  /\ calls # <<>>
  /\ LastCall.returned

\* C23 -- Flow signals come only from the designated flow-control actions:
\* an instruction yields goto, exit or return only if its action id is
\* '@flow/goto', '@flow/exit' or '@flow/return' respectively and the returned
\* value has the matching type tag; every other instruction yields continue
\* whatever value its handler returns (including a value shaped like a
\* goto/exit/return result), and so does a flow action whose returned value
\* has the wrong shape.
FlowOnlyFromFlowActions ==
  /\ [](ret.kind = "statement" => InstructionYielded)
  /\ [](InstructionYielded =>
          LET id == LastCall.id
              value == LastCall.result.value
          IN /\ ret.flow.type \in {"continue", "goto", "exit", "return"}
             /\ ret.flow.type # "continue" =>
                  /\ TagOf(id) = ret.flow.type
                  /\ Tagged(value, ret.flow.type)
             /\ TagOf(id) = "none" => ret.flow = Continue
             /\ ~Tagged(value, TagOf(id)) => ret.flow = Continue
             /\ (id = FlowGoto /\ Tagged(value, "goto")) =>
                  ret.flow = Goto(value.target)
             /\ (id = FlowExit /\ Tagged(value, "exit")) =>
                  ret.flow = Exit(value.code)
             /\ (id = FlowReturn /\ Tagged(value, "return")) =>
                  ret.flow = Return(value.value))
  /\ []((ret.kind = "list" /\ ret.flow.type # "continue") =>
          \E c \in 1..Len(calls) :
            /\ calls[c].returned
            /\ TagOf(calls[c].id) = ret.flow.type
            /\ Tagged(calls[c].result.value, ret.flow.type))

\* @utils/set input=signal returned a value shaped like an exit result and
\* yielded continue
FlowOnlyFromFlowActionsWitness ==
  /\ InstructionYielded
  /\ LastCall.id = UtilsSet
  /\ LastCall.result.value = ExitValue(Num(3))
  /\ ret.flow = Continue
  /\ ReadTarget(ret.context, <<"copy">>) = ExitValue(Num(3))

\* @flow/goto whose handler returned a value shaped like a return result
\* yielded continue
WrongShapeYieldsContinueWitness ==
  /\ InstructionYielded
  /\ LastCall.id = FlowGoto
  /\ LastCall.result.value = ReturnValue(Num(7))
  /\ ret.flow = Continue

\* ------------------------------------------------------------------------
\* The value of a log entry and the output write
\* ------------------------------------------------------------------------
HasTarget(instruction) ==
  instruction.output # <<>> \/ instruction.collect # <<>>

\* C24 -- Returned value is recorded only on success with a target: the log
\* entry of an instruction carries the handler's returned value only when
\* the instruction has output or collect and the handler result has
\* success = true; in every other case the entry's value is absent, and the
\* output target is written if and only if output is set and the result has
\* success = true.
ValueRecordedOnSuccessWithTarget ==
  [](InstructionYielded =>
       LET instruction == CallInstruction(LastCall)
           result == LastCall.result
           before == LastCall.context
       IN /\ ret.log.success = result.success
          /\ (HasTarget(instruction) /\ result.success) =>
               ret.log.value = result.value
          /\ ~(HasTarget(instruction) /\ result.success) =>
               ret.log.value = Undefined
          /\ (instruction.output # <<>> /\ result.success) =>
               /\ ret.context = WriteTarget(before, instruction.output, result.value)
               /\ ReadTarget(ret.context, instruction.output) = result.value
          /\ ~(instruction.output # <<>> /\ result.success) =>
               ret.context = before)

\* @ai/generateImage output=results whose handler returned success = false
\* with a value: the entry has no value and results was not written
ValueRecordedOnSuccessWithTargetWitness ==
  /\ InstructionYielded
  /\ CallInstruction(LastCall).output = <<"results">>
  /\ ~LastCall.result.success
  /\ LastCall.result.value = Str("image")
  /\ ret.log.value = Undefined
  /\ ~ret.log.success
  /\ ReadTarget(ret.context, <<"results">>) = Undefined

\* ------------------------------------------------------------------------
\* Results with success = false
\* ------------------------------------------------------------------------
\* this step is a handler invocation that returns a result with
\* success = false
HandlerReturnsFailure ==
  /\ CanExecute
  /\ Len(calls') = Len(calls) + 1
  /\ calls'[Len(calls')].returned
  /\ ~calls'[Len(calls')].result.success

\* the result of such an invocation has come back to the caller of
\* executeWithRetry
FailureYielded ==
  /\ Running
  /\ InstructionYielded
  /\ ~LastCall.result.success
  /\ stack # <<>>

\* C25 -- A handler that returns a result with success = false without
\* throwing is not retried, whatever the retry budget: it is invoked exactly
\* once (the retry wrapper returns at once), one log entry with
\* success = false is appended and its cost is added, neither the output nor
\* the collect target is written, and the run continues with the next
\* statement (or the next element) instead of terminating.
FailureResultIsNotRetried ==
  /\ [][HandlerReturnsFailure =>
          /\ Len(stack') = Len(stack) - 1
          /\ ret'.kind = "statement"
          /\ ret'.flow = Continue
          /\ ~ret'.log.success
          /\ ret'.log.value = Undefined
          /\ ret'.cost = calls'[Len(calls')].result.cost
          /\ ret'.context = Top.context]_vars
  /\ [][(FailureYielded /\ Top.fn = "executeStatementList") =>
          /\ calls' = calls
          /\ ret' = NoRet
          /\ outcome' = outcome
          /\ stack' = [stack EXCEPT ![Len(stack)] =
                         [Top EXCEPT !.actions = Append(@, ret.log),
                                     !.totalCost = @ + LastCall.result.cost,
                                     !.context = LastCall.context,
                                     !.i = @ + 1,
                                     !.pc = "loop"]]]_vars
  /\ [][(FailureYielded /\ Top.fn = "executeForEachInstruction") =>
          /\ calls' = calls
          /\ ret' = NoRet
          /\ outcome' = outcome
          /\ stack' = [stack EXCEPT ![Len(stack)] =
                         [Top EXCEPT !.actions = Append(@, ret.log),
                                     !.totalCost = @ + LastCall.result.cost,
                                     !.context = PopContext(LastCall.context),
                                     !.index = @ + 1,
                                     !.pc = "loop"]]]_vars

\* @ai/generateImage retry=2 output=results ; @utils/log: the handler
\* returned success = false once, the log ran next, and the run completed
\* with both entries, the first one's cost, and results unset
FailureResultIsNotRetriedWitness ==
  /\ outcome.kind = "normal"
  /\ Len(program) = 2
  /\ At(program, 0).type = "instruction"
  /\ At(program, 0).output = <<"results">>
  /\ At(program, 0).retry = Lit(Num(2))
  /\ Len(calls) = 2
  /\ calls[1].returned
  /\ ~calls[1].result.success
  /\ calls[2].id = UtilsLog
  /\ Len(FinalLog) = 2
  /\ ~FinalLog[1].success
  /\ outcome.cost = 1
  /\ ReadTarget(outcome.context, <<"results">>) = Undefined

\* ------------------------------------------------------------------------
\* Retry budgets that are negative or not a number
\* ------------------------------------------------------------------------
\* executeWithRetry is in its loop for an instruction whose retry argument
\* evaluates to budget
InRetryLoop(frame) ==
  /\ frame.fn = "executeWithRetry"
  /\ frame.pc = "loop"

BudgetOf(frame) == evaluate(NodeIn(program, frame.path).retry, frame.context)

NegativeBudget(frame) ==
  /\ InRetryLoop(frame)
  /\ BudgetOf(frame).t = "number"
  /\ BudgetOf(frame).n < 0

NonNumberBudget(frame) ==
  /\ InRetryLoop(frame)
  /\ BudgetOf(frame).t # "number"

\* C26 -- Negative retry budget: when the retry expression of an
\* instruction evaluates to a negative number, the retry loop body never
\* runs, so the handler is not invoked at all and the instruction fails by
\* throwing (an undefined error value) instead of making one attempt; a
\* retry expression evaluating to a non-number is treated as budget 0
\* (exactly one attempt).
NegativeRetryBudget ==
  /\ []((Running /\ stack # <<>> /\ NegativeBudget(Top)) =>
          /\ Top.attempt = 0
          /\ Top.lastError = Undefined
          /\ ~CanExecute)
  /\ [][(Running /\ stack # <<>> /\ NegativeBudget(Top) /\ ret = NoRet) =>
          /\ calls' = calls
          /\ ret' = Throw(Undefined)
          /\ Len(stack') = Len(stack) - 1]_vars
  /\ [](outcome = Failure(Undefined) =>
          /\ calls = <<>>
          /\ NegativeBudget([RetryFrame(<<0>>, EmptyContext(EmptyMap))
                               EXCEPT !.pc = "loop"]))
  /\ []((Running /\ stack # <<>> /\ NonNumberBudget(Top)) =>
          /\ Top.maxRetries = 0
          /\ Top.attempt = 0)
  /\ [][(Running /\ stack # <<>> /\ NonNumberBudget(Top) /\ ret = NoRet) =>
          /\ Len(calls') = Len(calls)
               + (IF Registered(CommandId(NodeIn(program, Top.path))) THEN 1 ELSE 0)
          /\ Len(stack') = Len(stack) - 1
          /\ ret'.kind \in {"throw", "statement"}]_vars

\* @ai/generateImage retry=-1: the run failed with an undefined error and
\* the handler was never invoked
NegativeRetryBudgetWitness ==
  /\ outcome = Failure(Undefined)
  /\ calls = <<>>
  /\ At(program, 0).retry = Lit(Num(-1))
  /\ At(program, 0).action = AiGenerate

\* @ai/generateImage retry="many": the one attempt threw and the run failed
\* with its error
NonNumberBudgetWitness ==
  /\ outcome = Failure(HandlerError(1))
  /\ Len(calls) = 1
  /\ At(program, 0).retry = Lit(Str("many"))

\* ------------------------------------------------------------------------
\* Jumps into a block
\* ------------------------------------------------------------------------
Parent(path) == SubSeq(path, 1, Len(path) - 1)

\* the label is a direct child of a statement list on the way from the
\* jumping instruction to the program root
OnTheWayUp(labelPath, jumperPath) == IsPrefix(Parent(labelPath), Parent(jumperPath))

\* invocation c yielded a jump to a label that exists but is inside a block
\* that does not enclose the jumping instruction
JumpsIntoBlock(c) ==
  /\ calls[c].returned
  /\ calls[c].id = FlowGoto
  /\ Tagged(calls[c].result.value, "goto")
  /\ calls[c].result.value.target.t = "string"
  /\ calls[c].result.value.target.s \in DOMAIN labelIndex
  /\ ~OnTheWayUp(labelIndex[calls[c].result.value.target.s], calls[c].path)

\* such a jump is on its way up
JumpIntoBlockPending ==
  /\ Running
  /\ calls # <<>>
  /\ JumpsIntoBlock(Len(calls))
  /\ ret.kind \in {"statement", "list"}

\* C27 -- Jumps cannot enter a block: a goto whose target label exists in
\* the label index but lies inside a block that does not enclose the jumping
\* instruction (the label is not a direct child of any statement list on the
\* path from the jumping instruction to the program root) is never resolved
\* and ends the run with the 'Unknown label' error, exactly as for a label
\* that does not exist.
JumpsCannotEnterBlock ==
  /\ [](\A c \in 1..Len(calls) :
          JumpsIntoBlock(c) =>
            /\ c = Len(calls)
            /\ outcome.kind \in {"running", "failed"}
            /\ outcome.kind = "failed" =>
                 outcome = Failure(UnknownLabel(calls[c].result.value.target)))
  /\ [][JumpIntoBlockPending =>
          /\ ret.flow = Goto(LastCall.result.value.target)
          /\ calls' = calls
          /\ IF stack = <<>>
             THEN outcome' = Failure(UnknownLabel(LastCall.result.value.target))
             ELSE /\ Len(stack') = Len(stack) - 1
                  /\ ret'.kind = "list"
                  /\ ret'.flow = ret.flow]_vars

\* @flow/goto target="inside" at the root, "inside" being the label of an
\* instruction in a block further down: the run failed with Unknown label
JumpsCannotEnterBlockWitness ==
  /\ program = LandingProgram("inside")
  /\ outcome = Failure(UnknownLabel(Str("inside")))
  /\ labelIndex["inside"] = <<4, 0>>
  /\ Len(calls) = 2
  /\ LastCall.id = FlowGoto
  /\ LastCall.path = <<1>>

\* ------------------------------------------------------------------------
\* Resuming at a label
\* ------------------------------------------------------------------------
\* a jump the list resolves: yielded by a plain instruction or by a block
ResolvableJumpArrived ==
  /\ LocalJumpArrived
  /\ Top.pc \in {"instruction", "block"}
  /\ Top.pc = "instruction" => Statement.collect = <<>>

LandingIndex == resolveGoto(ret.flow.target, labelIndex, Top.currentPath).index

\* what the statement that yielded the jump added to the log
YieldedEntries == IF ret.kind = "statement" THEN <<ret.log>> ELSE ret.actions

\* invocations made for the statement at path
CallsAt(path) == {c \in 1..Len(calls) : calls[c].path = path}

\* C28 -- Resumption re-evaluates the labelled instruction: when a jump is
\* resolved locally, the labelled instruction is processed exactly as on
\* sequential arrival -- its condition (and forEach, if any) is evaluated
\* against the context current at the time of the jump, and a falsy
\* condition skips it and continues with the next sibling -- and the
\* context, accumulated log and accumulated cost of the list are preserved
\* across the jump.
ResumptionReevaluates ==
  /\ [][ResolvableJumpArrived =>
          /\ stack' = [stack EXCEPT ![Len(stack)] =
                         [Top EXCEPT !.context = ret.context,
                                     !.actions = @ \o YieldedEntries,
                                     !.totalCost = @ + ret.cost,
                                     !.i = LandingIndex,
                                     !.pc = "loop"]]
          /\ ret' = NoRet
          /\ calls' = calls
          /\ AtStatement'
          /\ Statement'.label = ret.flow.target.s]_vars
  /\ [](\A t \in {"cond", "inside", "each"} :
          program = LandingProgram(t) =>
            /\ \A c \in CallsAt(<<3>>) :
                 /\ Truthy(ReadTarget(calls[c].context, <<"flag">>))
                 /\ ReadTarget(calls[c].context, <<"flag">>)
                      = ReadTarget(calls[c].context, <<"go">>)
            /\ (t = "cond" /\ outcome.kind = "normal") =>
                 /\ CallsAt(<<2>>) = {}
                 /\ CallsAt(<<3>>) # {} <=>
                      Truthy(ReadTarget(outcome.context, <<"go">>))
                 /\ CallsAt(<<4, 0>>) # {}
            /\ (t = "each" /\ outcome.kind = "normal") =>
                 /\ CallsAt(<<2>>) \cup CallsAt(<<3>>) \cup CallsAt(<<4, 0>>) = {}
                 /\ {calls[c].iteration : c \in CallsAt(<<5>>)}
                      = {<<j - 1>> : j \in
                           1..Len(ReadTarget(outcome.context, <<"items">>).a)})

\* @flow/goto target="cond" landed on `@utils/log label="cond" if=flag`
\* after flag had been set to 0: the labelled instruction was skipped, the
\* block after it ran, and the log holds the entries from before and after
\* the jump
ResumptionReevaluatesWitness ==
  /\ program = LandingProgram("cond")
  /\ outcome.kind = "normal"
  /\ ReadTarget(outcome.context, <<"flag">>) = Num(0)
  /\ ReadTarget(outcome.context, <<"items">>) = Arr(<<>>)
  /\ CallsAt(<<3>>) = {}
  /\ CommandsOf(FinalLog) = <<UtilsSet, FlowGoto, UtilsLog>>
  /\ calls[3].path = <<4, 0>>

\* the same jump with flag set to 1: the labelled instruction ran
LandedOnTruthyCondition ==
  /\ program = LandingProgram("cond")
  /\ outcome.kind = "normal"
  /\ CallsAt(<<3>>) # {}
  /\ CallsAt(<<2>>) = {}

\* ------------------------------------------------------------------------
\* Cost
\* ------------------------------------------------------------------------
\* sum of the cost fields of the entries of a log
RECURSIVE CostOf(_)
CostOf(log) ==
  IF log = <<>> THEN 0
  ELSE CostOf(SubSeq(log, 1, Len(log) - 1)) + log[Len(log)].cost

\* sum of the costs the handlers reported for the invocations that returned
RECURSIVE ReportedCost(_)
ReportedCost(invocations) ==
  IF invocations = <<>> THEN 0
  ELSE ReportedCost(SubSeq(invocations, 1, Len(invocations) - 1))
         + invocations[Len(invocations)].result.cost

\* C29 -- Cost accounting invariant: in every result returned by
\* executeProgram (normal completion, early exit or return), the total cost
\* equals the sum of the cost fields of the entries of the returned action
\* log, across any nesting of blocks, forEach iterations, retries and local
\* jumps; attempts that threw and statements that were skipped or filtered
\* contribute neither a log entry nor cost.
CostAccounting ==
  /\ [](HasResult =>
          /\ outcome.cost = CostOf(FinalLog)
          /\ outcome.batches[1].totalCost = CostOf(FinalLog)
          /\ Len(FinalLog) = Len(ReturnedInOrder)
          /\ outcome.cost = ReportedCost(ReturnedInOrder))
  /\ [](Running =>
          /\ \A k \in 1..Len(stack) :
               "totalCost" \in DOMAIN stack[k] =>
                 stack[k].totalCost = CostOf(stack[k].actions)
          /\ ret.kind = "list" => ret.cost = CostOf(ret.actions)
          /\ ret.kind = "statement" => ret.cost = ret.log.cost)

\* a forEach block over <<1, 1>> whose body generated an image at cost 1 in
\* one iteration and at cost 2 in the other: five entries, total cost 3
CostAccountingWitness ==
  /\ program = ForEachBlockProgram
  /\ outcome.kind = "normal"
  /\ Len(FinalLog) = 5
  /\ outcome.cost = 3
  /\ CostOf(FinalLog) = 3

\* retry=2: two attempts threw, the third returned at cost 1, and the total
\* cost of the run is 1
ThrownAttemptsCostNothing ==
  /\ HasResult
  /\ Len(calls) >= 3
  /\ ~calls[1].returned
  /\ ~calls[2].returned
  /\ calls[3].returned
  /\ calls[3].result.cost = 1
  /\ outcome.cost = 1

\* ------------------------------------------------------------------------
\* Termination
\* ------------------------------------------------------------------------
\* every await of a running interpreter resolves (handlers return or
\* throw), so a step of the run that can be taken is eventually taken
FairSpec == Spec /\ WF_vars(Running /\ Next)

\* some instruction has yielded a goto
GotoYielded ==
  \E c \in 1..Len(calls) :
    /\ calls[c].returned
    /\ calls[c].id = FlowGoto
    /\ Tagged(calls[c].result.value, "goto")

\* the run has used up the invocations the model follows
InvocationsExhausted == Len(calls) = MaxCalls

\* the frames that are on the stack before and after this step
Surviving == 1..(IF Len(stack') < Len(stack) THEN Len(stack') ELSE Len(stack))

\* invocations c < d of the same instruction in the same iterations of the
\* enclosing loops
SameExecution(c, d) ==
  /\ c < d
  /\ calls[c].path = calls[d].path
  /\ calls[c].iteration = calls[d].iteration

\* a jump-free run that has ended
EndedWithoutJump ==
  /\ outcome.kind \in {"normal", "earlyExit", "return", "failed"}
  /\ ~GotoYielded

\* C30 -- Termination without jumps: a run in which no instruction yields a
\* goto eventually ends with a result or an error (here: or uses up the
\* invocations the model follows); each forEach evaluates its iterable once,
\* when it starts, and its index only grows, by one per iteration, up to the
\* length the sequence had then; a statement list without a jump only moves
\* forward, and an instruction is invoked again in the same iteration only
\* after an attempt that threw.
TerminationWithoutJumps ==
  /\ <>(GotoYielded \/ ~Running \/ InvocationsExhausted)
  /\ [][ForEachStarting =>
          \/ Len(stack') = Len(stack) - 1
          \/ /\ Len(stack') = Len(stack)
             /\ stack'[Len(stack)].iterable = IterableOf(Top)
             /\ stack'[Len(stack)].index = 0]_vars
  /\ [][\A k \in Surviving :
          (IsForEachFrame(stack[k]) /\ stack[k].pc # "start") =>
            /\ IsForEachFrame(stack'[k])
            /\ stack'[k].iterable = stack[k].iterable
            /\ stack'[k].index \in {stack[k].index, stack[k].index + 1}
            /\ stack'[k].index <= Len(stack[k].iterable.a)]_vars
  /\ [][\A k \in Surviving :
          (IsForEachFrame(stack[k]) /\ Len(stack') > Len(stack)
             /\ k = Len(stack)) =>
            stack[k].index < Len(stack[k].iterable.a)]_vars
  /\ [][\A k \in Surviving :
          (stack[k].fn = "executeStatementList" /\ ~GotoYielded') =>
            stack'[k].i \in {stack[k].i, stack[k].i + 1}]_vars
  /\ [](~GotoYielded =>
          \A c, d \in 1..Len(calls) : SameExecution(c, d) => ~calls[c].returned)

\* forEach over two elements with a retry budget: the first attempt on the
\* first element threw, the second one and the one on the second element
\* returned, the log ran, and the run ended normally without a jump
TerminationWithoutJumpsWitness ==
  /\ EndedWithoutJump
  /\ outcome.kind = "normal"
  /\ Len(calls) = 4
  /\ ~calls[1].returned
  /\ SameExecution(1, 2)
  /\ calls[2].returned
  /\ calls[3].iteration = <<1>>
  /\ calls[4].id = UtilsLog

\* a backward jump makes the same instruction run to completion twice in the
\* same iteration
BackwardJumpRepeats ==
  /\ GotoYielded
  /\ \E c, d \in 1..Len(calls) : SameExecution(c, d) /\ calls[c].returned

====
